---- MODULE Spec2Model ----
(***************************************************************************)
(* A model of retty: the TCP bootstraps (listener task, per-connection     *)
(* driver tasks, stop()) and the handler pipeline (contexts, per-link      *)
(* locks, inbound and outbound traversal).                                 *)
(*                                                                         *)
(* Spec      the bootstrap: bind, accept, process_pipeline, stop           *)
(* FairSpec  Spec with the fairness the executor and select! provide       *)
(* AgainSpec Spec for an application that calls bind() and stop() again    *)
(* PipeSpec  one finalized pipeline entered by a driver task and an        *)
(*           application task                                              *)
(* EventSpec      lifecycle and timeout events entering a pipeline         *)
(* TransportSpec  writes and closes reaching the TCP or UDP transport      *)
(* CodecSpec      ByteToMessageDecoder over a byte stream cut into chunks  *)
(*                (CodecFairSpec: a read call that was entered keeps       *)
(*                running)                                                 *)
(* ConfigSpec     the bootstrap from new() on: pipeline() and bind()       *)
(* LoopSpec       one process_pipeline loop with its clock, timer,         *)
(*                outbound channel and socket (LoopFairSpec: with time     *)
(*                passing and the timer branch taken)                      *)
(* ExcSpec        read_exception along the inbound chain                   *)
(* EcnSpec        EcnCodepoint::from_bits over all u8 values               *)
(***************************************************************************)
EXTENDS Integers, Sequences, FiniteSets, TLC

\* ------------------------------------------------------------------ bounds
MaxBinds == 1
MaxConns == 1
MaxStops == 1
MaxQueue == 1
Sat == 2
NumHandlers == 3
MaxReads == 2
MaxAppCalls == 1
MaxLen == 3
LineMax == 2
MaxCodecEvents == 3
MaxTransportCalls == 3
MaxFactories == 2
MaxDuration == 2
MaxMsgs == 2
MaxMsgLen == 2

Binds == 1..(MaxBinds + 1)
Conns == 1..MaxConns
Stops == 1..(MaxStops + 1)

\* the two server bootstraps of the repository
Bootstraps == {"BootstrapTcp", "BootstrapTcpServer"}

VARIABLES
    bootstrap,    \* which bootstrap struct this run uses
    calls,        \* how many bind() and stop() calls the application makes
    pipeline_factory_fn, \* bootstrap.pipeline_factory_fn : 0 = None, k = the
                  \* factory given by the k-th call of pipeline()
    panicked,     \* a call on the bootstrap has panicked
    made,         \* accepted socket -> pipelines the factory has made for it
    spawned,      \* accepted socket -> driver tasks spawned for it
    close_tx,     \* bootstrap.close_tx : 0 = None, g = sender of bind g
    wg,           \* bootstrap.wg       : 0 = None, g = wait-group of bind g
    nbinds,       \* number of bind() calls so far
    chan,         \* close channel of bind g : [sent, open]
    lpc,          \* listener task of bind g : none / loop / wait / done
    owner,        \* connection -> bind whose listener accepted it (0 = unused)
    dpc,          \* driver task : none / start / loop / expired / select / exit / done
    worker,       \* the connection's child wait-group worker is alive
    child_close,  \* BootstrapTcpServer: () queued on the child's close channel
    sender,       \* sender side of the connection's outbound channel is alive
    outq,         \* items queued on the connection's outbound channel
    mon,          \* what the driver has delivered to the pipeline so far
    exitBy,       \* why the driver left (or never entered) its loop
    stopst,       \* stop() call : idle / waiting / returned
    stopwg        \* stop() call : the wait-group it took (0 = None)

bvars == <<bootstrap, calls, pipeline_factory_fn, panicked, made, spawned, close_tx, wg, nbinds, chan, lpc, owner, dpc, worker,
           child_close, sender, outq, mon, exitBy, stopst, stopwg>>

\* the pipeline
VARIABLES
    inKind,       \* handler -> what its inbound half does: default / telnet
    outKind,      \* handler -> what its outbound half is: default / tcp / udp
    rin,          \* handler -> the message type its halves are declared for
    stack,        \* task -> its call stack of handler callbacks (top = last)
    busy,         \* task -> its pipeline entry call has not returned yet
    lock,         \* per-link mutexes: handler and context, inbound and outbound
    log,          \* task -> what it has done, in order
    writer,       \* the transport encoder still owns its writer
    wire,         \* messages the transport encoder wrote to the writer
    nreads,       \* inbound messages injected so far
    napp          \* pipeline.write / pipeline.close calls of the application so far

pvars == <<inKind, outKind, rin, stack, busy, lock, log, writer, wire, nreads,
           napp>>

\* ByteToMessageCodec
VARIABLES
    decoder,           \* the MessageDecoder the codec wraps: any / line
    transport_active,  \* ByteToMessageDecoder.transport_active
    message,           \* the buffer handed to the read in progress (or the last one)
    cpc,               \* ByteToMessageDecoder::read : idle / while
    ctrace,            \* what the codec received, decoded and fired, in order
    whole,             \* the byte sequence the peer sends
    rest               \* the part of it not yet delivered

cvars == <<decoder, transport_active, message, cpc, ctrace, whole, rest>>

\* EcnCodepoint
VARIABLES
    ecn_x,             \* the u8 handed to EcnCodepoint::from_bits
    ecn_out,           \* what from_bits(ecn_x) returned (unset before the call)
    ecn_back           \* what from_bits(ecn_out as u8) returned

evars == <<ecn_x, ecn_out, ecn_back>>

\* one run of process_pipeline, with its clock, timer, channel and socket
VARIABLES
    ppc,               \* where the driver is: none / top / poll / check / arm /
                       \* select / exit / done
    eto,               \* the deadline, as eto minus the current time
    delay_from_now,    \* the Duration computed from eto
    timeout,           \* the Timer: time left until it fires
    iter,              \* what the current iteration has done so far
    close_rx,          \* a close signal is pending on close_rx
    out_tx,            \* the sender of the outbound channel is alive
    receiver,          \* the messages queued on the outbound channel
    enq,               \* every message handed to the channel, in order
    deq,               \* every message the driver passed to socket.write
    socket             \* the bytes the socket accepted, in order

lvars == <<ppc, eto, delay_from_now, timeout, iter, close_rx, out_tx, receiver,
           enq, deq, socket>>

vars == <<bvars, pvars, cvars, evars, lvars>>

\* --------------------------------------------------- delivered-event monitor
MonInit ==
    [first |-> "none", last |-> "none", nact |-> 0, ninact |-> 0,
     neof |-> 0, afterEof |-> FALSE]

Bump(n) == IF n < Sat THEN n + 1 ELSE n

\* the pipeline entry point e is called by the driver
Deliver(m, e) ==
    [first    |-> IF m.first = "none" THEN e ELSE m.first,
     last     |-> e,
     nact     |-> IF e = "transport_active" THEN Bump(m.nact) ELSE m.nact,
     ninact   |-> IF e = "transport_inactive" THEN Bump(m.ninact) ELSE m.ninact,
     neof     |-> IF e = "read_eof" THEN Bump(m.neof) ELSE m.neof,
     afterEof |-> m.afterEof \/ (m.neof > 0 /\ e = "read")]

\* ------------------------------------------------------------ the bootstrap
\* an application that calls bind() and stop() MaxBinds and MaxStops times
Once == [binds |-> MaxBinds, stops |-> MaxStops]

\* an application that calls each of them once more
Again == [binds |-> MaxBinds + 1, stops |-> MaxStops + 1]

\* Self::new(), apart from pipeline_factory_fn
BootFields ==
    /\ bootstrap \in Bootstraps
    /\ panicked = FALSE
    /\ made = [c \in Conns |-> 0]
    /\ spawned = [c \in Conns |-> 0]
    /\ close_tx = 0
    /\ wg = 0
    /\ nbinds = 0
    /\ chan = [g \in Binds |-> [sent |-> FALSE, open |-> FALSE]]
    /\ lpc = [g \in Binds |-> "none"]
    /\ owner = [c \in Conns |-> 0]
    /\ dpc = [c \in Conns |-> "none"]
    /\ worker = [c \in Conns |-> FALSE]
    /\ child_close = [c \in Conns |-> FALSE]
    /\ sender = [c \in Conns |-> FALSE]
    /\ outq = [c \in Conns |-> 0]
    /\ mon = [c \in Conns |-> MonInit]
    /\ exitBy = [c \in Conns |-> "none"]
    /\ stopst = [s \in Stops |-> "idle"]
    /\ stopwg = [s \in Stops |-> 0]

BootNew == calls = Once /\ BootFields

\* a bootstrap that was given its pipeline factory: new() and pipeline(f)
BootInit == BootNew /\ pipeline_factory_fn = 1

\* pipeline(f): the factory is stored, whatever was stored before
SetPipeline ==
    /\ ~panicked
    /\ pipeline_factory_fn < MaxFactories
    /\ pipeline_factory_fn' = pipeline_factory_fn + 1
    /\ UNCHANGED <<pvars, cvars, evars, lvars>>
    /\ UNCHANGED <<bootstrap, calls, panicked, made, spawned, close_tx, wg, nbinds,
                   chan, lpc, owner, dpc, worker, child_close, sender, outq,
                   mon, exitBy, stopst, stopwg>>

\* bind() without a factory: self.pipeline_factory_fn.as_ref().unwrap() panics
\* before anything is stored or spawned
BindUnconfigured ==
    /\ ~panicked
    /\ nbinds < calls.binds
    /\ pipeline_factory_fn = 0
    /\ panicked' = TRUE
    /\ UNCHANGED <<pvars, cvars, evars, lvars>>
    /\ UNCHANGED <<bootstrap, calls, pipeline_factory_fn, made, spawned, close_tx, wg,
                   nbinds, chan, lpc, owner, dpc, worker, child_close, sender,
                   outq, mon, exitBy, stopst, stopwg>>

\* bind(): a new close channel and wait-group replace the stored ones (the old
\* sender is dropped, which closes its channel) and the listener task starts
SenderKept(ch, tx) == ch

\* *tx = Some(close_tx): the sender stored before, if any, is dropped, and a
\* channel without a sender is closed
SenderDropped(ch, tx) ==
    IF tx = 0 THEN ch ELSE [ch EXCEPT ![tx].open = FALSE]

Bind ==
    /\ nbinds < calls.binds
    /\ ~panicked
    /\ pipeline_factory_fn # 0
    /\ LET g == nbinds + 1
           dropped == SenderDropped(chan, close_tx)
       IN /\ nbinds' = g
          /\ close_tx' = g
          /\ wg' = g
          /\ chan' = [dropped EXCEPT ![g] = [sent |-> FALSE, open |-> TRUE]]
          /\ lpc' = [lpc EXCEPT ![g] = "loop"]
    /\ UNCHANGED <<pvars, cvars, evars, lvars>>
    /\ UNCHANGED <<bootstrap, calls, pipeline_factory_fn, panicked, made, spawned, owner, dpc, worker, child_close, sender, outq,
                   mon, exitBy, stopst, stopwg>>

\* close_rx.recv() of the listener completes: a () was sent, or the sender is gone
ListenerCloseReady(g) == chan[g].sent \/ ~chan[g].open

AfterLoopNoBroadcast(g) ==
    /\ lpc' = [lpc EXCEPT ![g] = "wait"]
    /\ UNCHANGED child_close

\* after the accept loop: BootstrapTcpServer sends () to every child_close_tx
AfterLoop(g) ==
    /\ lpc' = [lpc EXCEPT ![g] = "wait"]
    /\ child_close' =
         IF bootstrap = "BootstrapTcpServer"
         THEN [c \in Conns |-> child_close[c] \/ owner[c] = g]
         ELSE child_close

ListenerClose(g) ==
    /\ lpc[g] = "loop"
    /\ ListenerCloseReady(g)
    /\ AfterLoop(g)
    /\ UNCHANGED <<pvars, cvars, evars, lvars>>
    /\ UNCHANGED <<bootstrap, calls, pipeline_factory_fn, panicked, made, spawned, close_tx, wg, nbinds, chan, owner, dpc, worker,
                   sender, outq, mon, exitBy, stopst, stopwg>>

MadeAtAcceptAlways == TRUE

\* BootstrapTcp calls the factory in the listener task, before the spawn
MadeAtAccept == bootstrap = "BootstrapTcp"

\* BootstrapTcpServer calls it first thing in process_pipeline
MadeInDriver == bootstrap = "BootstrapTcpServer"

\* listener.accept() returns a socket: a driver task is spawned for it
ListenerAccept(g) ==
    /\ lpc[g] = "loop"
    /\ \E c \in Conns :
         /\ owner[c] = 0
         /\ \A d \in Conns : d < c => owner[d] # 0
         /\ owner' = [owner EXCEPT ![c] = g]
         /\ dpc' = [dpc EXCEPT ![c] = "start"]
         /\ worker' = [worker EXCEPT ![c] = TRUE]
         /\ sender' = [sender EXCEPT ![c] = (bootstrap = "BootstrapTcp")]
         /\ made' = [made EXCEPT ![c] = IF MadeAtAccept THEN @ + 1 ELSE @]
         /\ spawned' = [spawned EXCEPT ![c] = @ + 1]
    /\ UNCHANGED <<pvars, cvars, evars, lvars>>
    /\ UNCHANGED <<bootstrap, calls, pipeline_factory_fn, panicked, close_tx, wg, nbinds, chan, lpc, child_close,
                   outq, mon, exitBy, stopst, stopwg>>

ListenerAcceptErrSilent(g) ==
    /\ lpc[g] = "loop"
    /\ lpc' = [lpc EXCEPT ![g] = "wait"]
    /\ UNCHANGED <<pvars, cvars, evars, lvars>>
    /\ UNCHANGED <<bootstrap, calls, pipeline_factory_fn, panicked, made, spawned, close_tx, wg, nbinds, chan, owner, dpc, worker,
                   child_close, sender, outq, mon, exitBy, stopst, stopwg>>

\* listener.accept() returns Err: warn!, break
ListenerAcceptErr(g) ==
    /\ lpc[g] = "loop"
    /\ AfterLoop(g)
    /\ UNCHANGED <<pvars, cvars, evars, lvars>>
    /\ UNCHANGED <<bootstrap, calls, pipeline_factory_fn, panicked, made, spawned, close_tx, wg, nbinds, chan, owner, dpc, worker,
                   sender, outq, mon, exitBy, stopst, stopwg>>

ChildWgNotAwaited(g) == TRUE

\* child_wg.wait() completes: every child worker has been dropped
ChildWgDone(g) == \A c \in Conns : owner[c] = g => ~worker[c]

ListenerExit(g) ==
    /\ lpc[g] = "wait"
    /\ ChildWgDone(g)
    /\ lpc' = [lpc EXCEPT ![g] = "done"]
    /\ UNCHANGED <<pvars, cvars, evars, lvars>>
    /\ UNCHANGED <<bootstrap, calls, pipeline_factory_fn, panicked, made, spawned, close_tx, wg, nbinds, chan, owner, dpc, worker,
                   child_close, sender, outq, mon, exitBy, stopst, stopwg>>

\* ------------------------------------------------------- process_pipeline
\* what the handlers run by one inbound event do to the outbound channel:
\* w items written through the transport handler, cl = outbound close reached it
CanWrite(c) == IF sender[c] /\ outq[c] < MaxQueue THEN 1 ELSE 0

HandlerEffect(c, w, cl) ==
    /\ outq' = [outq EXCEPT ![c] = @ + w]
    /\ sender' = [sender EXCEPT ![c] = @ /\ ~cl]

\* the events fired first
OnStart(m) == Deliver(m, "transport_active")

AddrErrKeepsWorker(c) ==
    /\ dpc' = [dpc EXCEPT ![c] = "done"]
    /\ exitBy' = [exitBy EXCEPT ![c] = "addr_err"]
    /\ sender' = [sender EXCEPT ![c] = FALSE]
    /\ UNCHANGED worker

\* socket.local_addr()? returns the error: the task ends, and _w, the
\* pipeline and the channel are dropped
AddrErr(c) ==
    /\ dpc' = [dpc EXCEPT ![c] = "done"]
    /\ worker' = [worker EXCEPT ![c] = FALSE]
    /\ exitBy' = [exitBy EXCEPT ![c] = "addr_err"]
    /\ sender' = [sender EXCEPT ![c] = FALSE]

DriverStart(c) ==
    /\ dpc[c] = "start"
    /\ made' = [made EXCEPT ![c] = IF MadeInDriver THEN @ + 1 ELSE @]
    /\ \E addr_ok \in BOOLEAN :
         IF addr_ok
         THEN /\ mon' = [mon EXCEPT ![c] = OnStart(@)]
              /\ dpc' = [dpc EXCEPT ![c] = "loop"]
              /\ \E w \in 0..1 :
                   /\ outq' = [outq EXCEPT ![c] = w]
                   /\ sender' = [sender EXCEPT ![c] = TRUE]
              /\ UNCHANGED <<worker, exitBy>>
         ELSE /\ AddrErr(c)
              /\ UNCHANGED <<mon, outq>>
    /\ UNCHANGED <<pvars, cvars, evars, lvars>>
    /\ UNCHANGED <<bootstrap, calls, pipeline_factory_fn, panicked, spawned, close_tx, wg, nbinds, chan, lpc, owner,
                   child_close, stopst, stopwg>>

\* top of the loop: poll_timeout lets the handlers pull the deadline in;
\* expired = the deadline they left is not later than now
DriverPoll(c) ==
    /\ dpc[c] = "loop"
    /\ mon' = [mon EXCEPT ![c] = Deliver(@, "poll_timeout")]
    /\ \E expired \in BOOLEAN :
         dpc' = [dpc EXCEPT ![c] = IF expired THEN "expired" ELSE "select"]
    /\ UNCHANGED <<pvars, cvars, evars, lvars>>
    /\ UNCHANGED <<bootstrap, calls, pipeline_factory_fn, panicked, made, spawned, close_tx, wg, nbinds, chan, lpc, owner, worker,
                   child_close, sender, outq, exitBy, stopst, stopwg>>

\* delay_from_now.is_zero(): handle_timeout, then continue without selecting
DriverExpired(c) ==
    /\ dpc[c] = "expired"
    /\ mon' = [mon EXCEPT ![c] = Deliver(@, "handle_timeout")]
    /\ dpc' = [dpc EXCEPT ![c] = "loop"]
    /\ UNCHANGED <<pvars, cvars, evars, lvars>>
    /\ UNCHANGED <<bootstrap, calls, pipeline_factory_fn, panicked, made, spawned, close_tx, wg, nbinds, chan, lpc, owner, worker,
                   child_close, sender, outq, exitBy, stopst, stopwg>>

\* close_rx.recv() of the driver completes
DriverCloseReady(c) ==
    IF bootstrap = "BootstrapTcp"
    THEN chan[owner[c]].sent \/ ~chan[owner[c]].open
    ELSE child_close[c]

Continue(c, why) ==
    /\ dpc' = [dpc EXCEPT ![c] = "loop"]
    /\ exitBy' = [exitBy EXCEPT ![c] = why]

\* break: leave the loop
Break(c, why) ==
    /\ dpc' = [dpc EXCEPT ![c] = "exit"]
    /\ exitBy' = [exitBy EXCEPT ![c] = why]

DriverSelectClose(c) ==
    /\ dpc[c] = "select"
    /\ DriverCloseReady(c)
    /\ Break(c, "close")
    /\ UNCHANGED <<pvars, cvars, evars, lvars>>
    /\ UNCHANGED <<bootstrap, calls, pipeline_factory_fn, panicked, made, spawned, close_tx, wg, nbinds, chan, lpc, owner, worker,
                   child_close, sender, outq, mon, stopst, stopwg>>

DriverSelectTimer(c) ==
    /\ dpc[c] = "select"
    /\ mon' = [mon EXCEPT ![c] = Deliver(@, "handle_timeout")]
    /\ dpc' = [dpc EXCEPT ![c] = "loop"]
    /\ UNCHANGED <<pvars, cvars, evars, lvars>>
    /\ UNCHANGED <<bootstrap, calls, pipeline_factory_fn, panicked, made, spawned, close_tx, wg, nbinds, chan, lpc, owner, worker,
                   child_close, sender, outq, exitBy, stopst, stopwg>>

\* receiver.recv() returns Some(transmit): socket.write succeeds or fails
DriverSelectRecv(c) ==
    /\ dpc[c] = "select"
    /\ outq[c] > 0
    /\ outq' = [outq EXCEPT ![c] = @ - 1]
    /\ \E ok \in BOOLEAN :
         IF ok
         THEN dpc' = [dpc EXCEPT ![c] = "loop"] /\ UNCHANGED exitBy
         ELSE Break(c, "write_err")
    /\ UNCHANGED <<pvars, cvars, evars, lvars>>
    /\ UNCHANGED <<bootstrap, calls, pipeline_factory_fn, panicked, made, spawned, close_tx, wg, nbinds, chan, lpc, owner, worker,
                   child_close, sender, mon, stopst, stopwg>>

\* receiver.recv() returns None: the queue is empty and the sender was dropped
DriverSelectRecvNone(c) ==
    /\ dpc[c] = "select"
    /\ outq[c] = 0
    /\ ~sender[c]
    /\ Break(c, "chan_closed")
    /\ UNCHANGED <<pvars, cvars, evars, lvars>>
    /\ UNCHANGED <<bootstrap, calls, pipeline_factory_fn, panicked, made, spawned, close_tx, wg, nbinds, chan, lpc, owner, worker,
                   child_close, sender, outq, mon, stopst, stopwg>>

\* socket.read returned Ok(0)
OnReadZero(m) == Deliver(m, "read_eof")

EofPcNoBreak == "loop"

\* where the driver goes after read_eof: break, out of the loop
EofPc == "exit"

\* socket.read returned Ok(n), n > 0
OnReadData(m) == Deliver(m, "read")

DriverSelectRead(c) ==
    /\ dpc[c] = "select"
    /\ \E res \in {"data", "eof", "err"} :
         CASE res = "data" ->
                /\ mon' = [mon EXCEPT ![c] = OnReadData(@)]
                /\ dpc' = [dpc EXCEPT ![c] = "loop"]
                /\ \E w \in 0..CanWrite(c), cl \in BOOLEAN : HandlerEffect(c, w, cl)
                /\ UNCHANGED exitBy
           [] res = "eof" ->
                /\ mon' = [mon EXCEPT ![c] = OnReadZero(@)]
                /\ dpc' = [dpc EXCEPT ![c] = EofPc]
                /\ exitBy' = [exitBy EXCEPT ![c] = "eof"]
                /\ UNCHANGED <<sender, outq>>
           [] res = "err" ->
                /\ Break(c, "read_err")
                /\ UNCHANGED <<mon, sender, outq>>
    /\ UNCHANGED <<pvars, cvars, evars, lvars>>
    /\ UNCHANGED <<bootstrap, calls, pipeline_factory_fn, panicked, made, spawned, close_tx, wg, nbinds, chan, lpc, owner, worker,
                   child_close, stopst, stopwg>>

OnExitSilent(m) == m

\* after the loop: transport_inactive, then the task returns and drops its
\* worker, its pipeline (the sender) and its receiver with whatever is queued
OnExit(m) == Deliver(m, "transport_inactive")

DriverExit(c) ==
    /\ dpc[c] = "exit"
    /\ mon' = [mon EXCEPT ![c] = OnExit(@)]
    /\ dpc' = [dpc EXCEPT ![c] = "done"]
    /\ worker' = [worker EXCEPT ![c] = FALSE]
    /\ sender' = [sender EXCEPT ![c] = FALSE]
    /\ outq' = [outq EXCEPT ![c] = 0]
    /\ UNCHANGED <<pvars, cvars, evars, lvars>>
    /\ UNCHANGED <<bootstrap, calls, pipeline_factory_fn, panicked, made, spawned, close_tx, wg, nbinds, chan, lpc, owner,
                   child_close, exitBy, stopst, stopwg>>

\* ------------------------------------------------------------------ stop()
TakeLeaves(x) == x

\* Option::take(): what it leaves in the cell, None
Taken(x) == 0

\* take close_tx and send (), take wg; wait on it when there was one
Stop(s) ==
    /\ s <= calls.stops
    /\ stopst[s] = "idle"
    /\ \A r \in Stops : r < s => stopst[r] # "idle"
    /\ chan' = IF close_tx = 0 THEN chan
               ELSE [chan EXCEPT ![close_tx] = [sent |-> TRUE, open |-> FALSE]]
    /\ close_tx' = Taken(close_tx)
    /\ wg' = Taken(wg)
    /\ stopwg' = [stopwg EXCEPT ![s] = wg]
    /\ stopst' = [stopst EXCEPT ![s] = IF wg = 0 THEN "returned" ELSE "waiting"]
    /\ UNCHANGED <<pvars, cvars, evars, lvars>>
    /\ UNCHANGED <<bootstrap, calls, pipeline_factory_fn, panicked, made, spawned, nbinds, lpc, owner, dpc, worker, child_close,
                   sender, outq, mon, exitBy>>

\* wg.wait() completes: the listener's worker has been dropped
WgDone(g) == lpc[g] = "done"

StopReturn(s) ==
    /\ stopst[s] = "waiting"
    /\ WgDone(stopwg[s])
    /\ stopst' = [stopst EXCEPT ![s] = "returned"]
    /\ UNCHANGED <<pvars, cvars, evars, lvars>>
    /\ UNCHANGED <<bootstrap, calls, pipeline_factory_fn, panicked, made, spawned, close_tx, wg, nbinds, chan, lpc, owner, dpc,
                   worker, child_close, sender, outq, mon, exitBy, stopwg>>

Next ==
    \/ Bind
    \/ \E g \in Binds : ListenerClose(g)
    \/ \E g \in Binds : ListenerAccept(g)
    \/ \E g \in Binds : ListenerAcceptErr(g)
    \/ \E g \in Binds : ListenerExit(g)
    \/ \E c \in Conns : DriverStart(c)
    \/ \E c \in Conns : DriverPoll(c)
    \/ \E c \in Conns : DriverExpired(c)
    \/ \E c \in Conns : DriverSelectClose(c)
    \/ \E c \in Conns : DriverSelectTimer(c)
    \/ \E c \in Conns : DriverSelectRecv(c)
    \/ \E c \in Conns : DriverSelectRecvNone(c)
    \/ \E c \in Conns : DriverSelectRead(c)
    \/ \E c \in Conns : DriverExit(c)
    \/ \E s \in Stops : Stop(s)
    \/ \E s \in Stops : StopReturn(s)

\* a pipeline nobody has entered
PipeIdle ==
    /\ inKind = [h \in 1..NumHandlers |-> "default"]
    /\ outKind = [h \in 1..NumHandlers |-> IF h = 1 THEN "tcp" ELSE "default"]
    /\ rin = [h \in 1..NumHandlers |-> "bytes"]
    /\ stack = [t \in {"driver", "app"} |-> <<>>]
    /\ busy = [t \in {"driver", "app"} |-> FALSE]
    /\ lock = [l \in {"in", "out"} \X {"H", "C"} \X (1..NumHandlers) |-> "free"]
    /\ log = [t \in {"driver", "app"} |-> <<>>]
    /\ writer = TRUE
    /\ wire = <<>>
    /\ nreads = 0
    /\ napp = 0

\* a codec nobody has called
CodecIdle ==
    /\ decoder = "line"
    /\ transport_active = FALSE
    /\ message = <<>>
    /\ cpc = "idle"
    /\ ctrace = <<>>
    /\ whole = <<>>
    /\ rest = <<>>

\* from_bits was never called
EcnIdle ==
    /\ ecn_x = 0
    /\ ecn_out = "unset"
    /\ ecn_back = "unset"

\* no iteration yet, or the top of one
IterInit ==
    [polled |-> FALSE, checked |-> FALSE, atcheck |-> 0, armed |-> 0,
     waited |-> FALSE, fired |-> "none", late |-> 0]

\* process_pipeline was never called
LoopIdle ==
    /\ ppc = "none"
    /\ eto = 0
    /\ delay_from_now = 0
    /\ timeout = 0
    /\ iter = IterInit
    /\ close_rx = FALSE
    /\ out_tx = FALSE
    /\ receiver = <<>>
    /\ enq = <<>>
    /\ deq = <<>>
    /\ socket = <<>>

Init == BootInit /\ PipeIdle /\ CodecIdle /\ EcnIdle /\ LoopIdle

Spec == Init /\ [][Next]_vars

\* the bootstrap from new() on: pipeline() and bind() in any order
\* the bootstrap of an application that binds and stops once more
AgainInit ==
    /\ calls = Again
    /\ BootFields
    /\ pipeline_factory_fn = 1
    /\ PipeIdle
    /\ CodecIdle
    /\ EcnIdle
    /\ LoopIdle

AgainSpec == AgainInit /\ [][Next]_vars

ConfigInit ==
    /\ BootNew
    /\ pipeline_factory_fn = 0
    /\ PipeIdle
    /\ CodecIdle
    /\ EcnIdle
    /\ LoopIdle

ConfigNext == SetPipeline \/ BindUnconfigured \/ Next

ConfigSpec == ConfigInit /\ [][ConfigNext]_vars

\* fairness: every spawned task is scheduled again (WF); select! picks among
\* its ready branches at random, so a branch that is ready at every visit of
\* the select is taken eventually (SF)
Fairness ==
    /\ \A g \in Binds : SF_vars(ListenerClose(g)) /\ WF_vars(ListenerExit(g))
    /\ \A c \in Conns : /\ WF_vars(DriverStart(c))
                        /\ WF_vars(DriverPoll(c))
                        /\ WF_vars(DriverExpired(c))
                        /\ SF_vars(DriverSelectClose(c))
                        /\ WF_vars(DriverExit(c))
    /\ \A s \in Stops : WF_vars(StopReturn(s))

FairSpec == Init /\ [][Next]_vars /\ Fairness

\* ================================================================ the pipeline
Handlers == 1..NumHandlers
Tasks == {"driver", "app"}
Types == {"bytes", "string"}

\* peer: the transport.peer_addr a message is tagged with (0 = None)
NoMsg == [src |-> "none", n |-> 0, ty |-> "none", bye |-> FALSE, peer |-> 0]
NetMsg(k, b) == [src |-> "net", n |-> k, ty |-> "bytes", bye |-> b, peer |-> 0]
AppMsg(k) == [src |-> "app", n |-> k, ty |-> "bytes", bye |-> FALSE, peer |-> 0]

\* Error::new(ErrorKind::Other, "message.downcast_mut error for <ctx.id>")
DowncastErr(h) ==
    [src |-> "downcast", n |-> h, ty |-> "error", bye |-> FALSE, peer |-> 0]

\* the io::Error of a failed writer.write
IoErr == [src |-> "io", n |-> 0, ty |-> "error", bye |-> FALSE, peer |-> 0]

\* Error::new(ErrorKind::NotConnected, "Transport endpoint is not connected")
NotConnected ==
    [src |-> "not_connected", n |-> 0, ty |-> "error", bye |-> FALSE, peer |-> 0]

\* inbound bytes the MessageDecoder of a ByteToMessageCodec fails on
Undecodable(k) ==
    [src |-> "bad", n |-> k, ty |-> "bytes", bye |-> FALSE, peer |-> 0]

\* the Err(err) of message_decoder.decode for message m
DecodeErr(m) ==
    [src |-> "decode", n |-> m.n, ty |-> "error", bye |-> FALSE, peer |-> 0]

\* the line TelnetDecoder writes back for the message it read
Reply(m) == [src |-> "reply", n |-> m.n, ty |-> m.ty, bye |-> m.bye, peer |-> 0]

Op(d, e, m) == [dir |-> d, ev |-> e, msg |-> m]

LockIds == {"in", "out"} \X {"H", "C"} \X Handlers

\* ---- the links finalize() builds
\* next_in_handler / next_in_ctx of inbound context h (0 = None)
NextIn(h) == IF h < NumHandlers THEN h + 1 ELSE 0

\* next_out_handler / next_out_ctx of an outbound context of link h, the one
\* stored in the pipeline and the one embedded in inbound context h (0 = None)
NextOut(h) == h - 1

DerefNextLink(h) == IF h < NumHandlers THEN h + 1 ELSE h

\* Deref for InboundHandlerContext: the outbound context an inbound callback
\* of handler h reaches through its ctx is the one embedded in that ctx
Deref(h) == h

\* the handler a fire_* called in a callback of handler h dispatches to
Target(fdir, h, odir) ==
    IF odir = "in" THEN NextIn(h)
    ELSE IF fdir = "in" THEN NextOut(Deref(h))
    ELSE NextOut(h)

\* ---- what the callbacks do
DefaultForwardsTwice(d, e, m) == <<Op(d, e, m), Op(d, e, m)>>

DefaultSwallows(d, e, m) == <<>>

\* the provided methods of InboundHandler and OutboundHandler: forward
DefaultScript(d, e, m) == <<Op(d, e, m)>>

\* TelnetDecoder::read: write a line back; on "bye" also fire close
TelnetRead(m) ==
    IF m.bye THEN <<Op("out", "write", Reply(m)), Op("out", "close", NoMsg)>>
    ELSE <<Op("out", "write", Reply(m))>>

\* read_internal / write_internal: message.downcast_mut::<T>()
Downcasts(h, m) == m.ty = rin[h]

\* ByteToMessageDecoder::read of an active codec: Err => fire_read_exception
\* and return; a decoded frame => fire_read, and the next decode finds nothing
CodecScript(m) ==
    IF m.src = "bad" THEN <<Op("in", "read_exception", DecodeErr(m))>>
    ELSE <<Op("in", "read", m)>>

InboundScriptForwards(h, e, m) == DefaultScript("in", e, m)

InboundScript(h, e, m) ==
    IF e = "read"
    THEN IF ~Downcasts(h, m) THEN <<Op("in", "read_exception", DowncastErr(h))>>
         ELSE IF inKind[h] = "telnet" THEN TelnetRead(m)
         ELSE IF inKind[h] = "codec" THEN CodecScript(m)
         ELSE DefaultScript("in", e, m)
    ELSE DefaultScript("in", e, m)

\* the outbound half of handler h is AsyncTransportTcpEncoder
IsTransport(h) == outKind[h] = "tcp"

\* the outbound half of handler h is AsyncTransportUdpEncoder
IsUdp(h) == outKind[h] = "udp"

UdpWriteReportsInbound(m, ok) ==
    IF m.peer # 0
    THEN IF ok THEN <<>> ELSE <<Op("in", "read_exception", IoErr)>>
    ELSE <<Op("in", "read_exception", NotConnected)>>

UdpWriteIgnoresPeer(m, ok) ==
    IF ok THEN <<>> ELSE <<Op("out", "write_exception", IoErr)>>

\* AsyncTransportUdpEncoder::write; ok = writer.write returned Ok
UdpWrite(m, ok) ==
    IF m.peer # 0
    THEN IF ok THEN <<>> ELSE <<Op("out", "write_exception", IoErr)>>
    ELSE <<Op("out", "write_exception", NotConnected)>>

TcpCloseStrict ==
    IF writer THEN <<>> ELSE <<Op("out", "write_exception", NotConnected)>>

\* AsyncTransportTcpEncoder::close_generic: self.writer.take(), nothing fired
TcpClose == <<>>

OutboundScriptForwards(h, e, m, ok) == DefaultScript("out", e, m)

OutboundScript(h, e, m, ok) ==
    IF e = "write"
    THEN IF ~Downcasts(h, m) THEN <<Op("out", "write_exception", DowncastErr(h))>>
         ELSE IF IsTransport(h)
              THEN IF writer /\ ~ok THEN <<Op("out", "write_exception", IoErr)>>
                   ELSE <<>>
              ELSE IF IsUdp(h) THEN UdpWrite(m, ok)
              ELSE DefaultScript("out", e, m)
    ELSE IF e = "close" /\ IsTransport(h) THEN TcpClose
    ELSE DefaultScript("out", e, m)

SentTwice(w, m) == Append(Append(w, m), m)

\* self.writer.write(&msg.message, target): one write of the message's bytes
Sent(w, m) == Append(w, m)

\* ---- locks
LockNotChecked(l) == TRUE

\* Mutex::lock().await completes: the mutex is free
CanLock(l) == lock[l] = "free"

OnlyHandler(d, h) == {<<d, "H", h>>}

\* the guards dropped when the fire_* block ends
Guards(d, h) == {<<d, "H", h>>, <<d, "C", h>>}

\* ---- frames
Frame(d, h, e, m, entry) ==
    [dir |-> d, h |-> h, ev |-> e, msg |-> m, st |-> "lockH",
     todo |-> <<>>, entry |-> entry]

Top(t) == stack[t][Len(stack[t])]

SetTop(t, f) == [stack EXCEPT ![t] = [@ EXCEPT ![Len(@)] = f]]

Entry(k, f) == [k |-> k, dir |-> f.dir, h |-> f.h, ev |-> f.ev, msg |-> f.msg]

CallDetached(st, f) == <<f>> \o st

\* next_handler.<event>_internal(&mut next_ctx, ..).await: the caller resumes
\* when the callee has returned
Call(st, f) == Append(st, f)

PipeInit ==
    /\ inKind \in {k \in [Handlers -> {"default", "telnet"}] :
                     Cardinality({h \in Handlers : k[h] = "telnet"}) <= 1}
    /\ outKind = [h \in Handlers |-> IF h = 1 THEN "tcp" ELSE "default"]
    /\ rin \in {r \in [Handlers -> Types] :
                  Cardinality({h \in Handlers : r[h] = "string"}) <= 1}
    /\ stack = [t \in Tasks |-> <<>>]
    /\ busy = [t \in Tasks |-> FALSE]
    /\ lock = [l \in LockIds |-> "free"]
    /\ log = [t \in Tasks |-> <<>>]
    /\ writer = TRUE
    /\ wire = <<>>
    /\ nreads = 0
    /\ napp = 0

\* the driver's call of pipeline.read has returned before it reads again
ReadReturned == ~busy["driver"]

\* pipeline.read(msg): enter at the first inbound handler
PipelineRead ==
    /\ ReadReturned
    /\ nreads < MaxReads
    /\ \E b \in BOOLEAN :
         stack' = [stack EXCEPT !["driver"] =
                     Append(@, Frame("in", 1, "read", NetMsg(nreads + 1, b), TRUE))]
    /\ busy' = [busy EXCEPT !["driver"] = TRUE]
    /\ nreads' = nreads + 1
    /\ UNCHANGED <<inKind, outKind, rin, lock, log, writer, wire, napp>>
    /\ UNCHANGED <<bvars, cvars, evars, lvars>>

\* pipeline.write(msg) of the application: enter at the last outbound handler
PipelineWrite ==
    /\ ~busy["app"]
    /\ napp < MaxAppCalls
    /\ stack' = [stack EXCEPT !["app"] =
                   Append(@, Frame("out", NumHandlers, "write", AppMsg(napp + 1), TRUE))]
    /\ busy' = [busy EXCEPT !["app"] = TRUE]
    /\ napp' = napp + 1
    /\ UNCHANGED <<inKind, outKind, rin, lock, log, writer, wire, nreads>>
    /\ UNCHANGED <<bvars, cvars, evars, lvars>>

\* pipeline.close() of the application
PipelineClose ==
    /\ ~busy["app"]
    /\ napp < MaxAppCalls
    /\ stack' = [stack EXCEPT !["app"] =
                   Append(@, Frame("out", NumHandlers, "close", NoMsg, TRUE))]
    /\ busy' = [busy EXCEPT !["app"] = TRUE]
    /\ napp' = napp + 1
    /\ UNCHANGED <<inKind, outKind, rin, lock, log, writer, wire, nreads>>
    /\ UNCHANGED <<bvars, cvars, evars, lvars>>

\* next_handler.lock().await
LockHandler(t) ==
    /\ stack[t] # <<>>
    /\ Top(t).st = "lockH"
    /\ CanLock(<<Top(t).dir, "H", Top(t).h>>)
    /\ lock' = [lock EXCEPT ![<<Top(t).dir, "H", Top(t).h>>] = t]
    /\ stack' = SetTop(t, [Top(t) EXCEPT !.st = "lockC"])
    /\ UNCHANGED <<inKind, outKind, rin, busy, log, writer, wire, nreads, napp>>
    /\ UNCHANGED <<bvars, cvars, evars, lvars>>

\* next_ctx.lock().await, then the callee's *_internal method starts
LockContext(t) ==
    /\ stack[t] # <<>>
    /\ Top(t).st = "lockC"
    /\ CanLock(<<Top(t).dir, "C", Top(t).h>>)
    /\ lock' = [lock EXCEPT ![<<Top(t).dir, "C", Top(t).h>>] = t]
    /\ LET f == Top(t)
           typed == f.ev \in {"read", "write"}
           mismatch == typed /\ ~Downcasts(f.h, f.msg)
           iswrite == /\ f.dir = "out" /\ f.ev = "write" /\ ~mismatch
                      /\ \/ IsTransport(f.h)
                         \/ IsUdp(f.h) /\ f.msg.peer # 0
           isclose == f.dir = "out" /\ f.ev = "close" /\ IsTransport(f.h)
       IN \E ok \in (IF iswrite /\ writer THEN BOOLEAN ELSE {TRUE}) :
            /\ stack' = SetTop(t, [f EXCEPT
                          !.st = "run",
                          !.todo = IF f.dir = "in" THEN InboundScript(f.h, f.ev, f.msg)
                                   ELSE OutboundScript(f.h, f.ev, f.msg, ok)])
            /\ log' = [log EXCEPT ![t] =
                         Append(@, Entry(IF mismatch THEN "mismatch" ELSE "call", f))]
            /\ wire' = IF iswrite /\ writer /\ ok THEN Sent(wire, f.msg) ELSE wire
            /\ writer' = IF isclose THEN FALSE ELSE writer
    /\ UNCHANGED <<inKind, outKind, rin, busy, nreads, napp>>
    /\ UNCHANGED <<bvars, cvars, evars, lvars>>

\* ctx.fire_<event>(..) in a callback, with a next link: dispatch to it
Fire(t) ==
    /\ stack[t] # <<>>
    /\ Top(t).st = "run"
    /\ Top(t).todo # <<>>
    /\ LET f == Top(t)
           op == Head(f.todo)
           to == Target(f.dir, f.h, op.dir)
       IN /\ to \in Handlers
          /\ stack' = [stack EXCEPT ![t] =
                         Call([@ EXCEPT ![Len(@)] = [f EXCEPT !.todo = Tail(@)]],
                              Frame(op.dir, to, op.ev, op.msg, FALSE))]
    /\ UNCHANGED <<inKind, outKind, rin, busy, lock, log, writer, wire, nreads, napp>>
    /\ UNCHANGED <<bvars, cvars, evars, lvars>>

\* what fire_<event> does in its else branch, when there is no next link
EndDiagnostic(e) ==
    IF e \in {"transport_active", "transport_inactive"} THEN "none"
    ELSE IF e = "poll_timeout" THEN "trace"
    ELSE "warn"

\* ctx.fire_<event>(..) with no next link: the call returns; "eop" = a
\* "reached end of pipeline" diagnostic was logged, "end" = nothing was logged
FireEnd(t) ==
    /\ stack[t] # <<>>
    /\ Top(t).st = "run"
    /\ Top(t).todo # <<>>
    /\ LET f == Top(t)
           op == Head(f.todo)
           to == Target(f.dir, f.h, op.dir)
       IN /\ to \notin Handlers
          /\ stack' = SetTop(t, [f EXCEPT !.todo = Tail(@)])
          /\ log' = [log EXCEPT ![t] =
                       Append(@, [k |-> IF EndDiagnostic(op.ev) = "none"
                                        THEN "end" ELSE "eop",
                                  dir |-> op.dir, h |-> f.h,
                                  ev |-> op.ev, msg |-> op.msg])]
    /\ UNCHANGED <<inKind, outKind, rin, busy, lock, writer, wire, nreads, napp>>
    /\ UNCHANGED <<bvars, cvars, evars, lvars>>

\* the callback returns: the fire_* block of the caller ends, its guards drop
Return(t) ==
    /\ stack[t] # <<>>
    /\ Top(t).st = "run"
    /\ Top(t).todo = <<>>
    /\ LET f == Top(t)
       IN /\ stack' = [stack EXCEPT ![t] = SubSeq(@, 1, Len(@) - 1)]
          /\ lock' = [l \in LockIds |->
                        IF l \in Guards(f.dir, f.h) THEN "free" ELSE lock[l]]
          /\ log' = [log EXCEPT ![t] = Append(@, Entry("ret", f))]
          /\ busy' = [busy EXCEPT ![t] = IF f.entry THEN FALSE ELSE @]
    /\ UNCHANGED <<inKind, outKind, rin, writer, wire, nreads, napp>>
    /\ UNCHANGED <<bvars, cvars, evars, lvars>>

PipeNext ==
    \/ PipelineRead
    \/ PipelineWrite
    \/ PipelineClose
    \/ \E t \in Tasks : LockHandler(t)
    \/ \E t \in Tasks : LockContext(t)
    \/ \E t \in Tasks : Fire(t)
    \/ \E t \in Tasks : FireEnd(t)
    \/ \E t \in Tasks : Return(t)

\* the bootstrap before any bind()
BootIdle ==
    /\ bootstrap = "BootstrapTcp"
    /\ calls = Once
    /\ pipeline_factory_fn = 0
    /\ panicked = FALSE
    /\ made = [c \in Conns |-> 0]
    /\ spawned = [c \in Conns |-> 0]
    /\ close_tx = 0
    /\ wg = 0
    /\ nbinds = 0
    /\ chan = [g \in Binds |-> [sent |-> FALSE, open |-> FALSE]]
    /\ lpc = [g \in Binds |-> "none"]
    /\ owner = [c \in Conns |-> 0]
    /\ dpc = [c \in Conns |-> "none"]
    /\ worker = [c \in Conns |-> FALSE]
    /\ child_close = [c \in Conns |-> FALSE]
    /\ sender = [c \in Conns |-> FALSE]
    /\ outq = [c \in Conns |-> 0]
    /\ mon = [c \in Conns |-> MonInit]
    /\ exitBy = [c \in Conns |-> "none"]
    /\ stopst = [s \in Stops |-> "idle"]
    /\ stopwg = [s \in Stops |-> 0]

\* a finalized pipeline, its bootstrap left aside
PipeStart == PipeInit /\ BootIdle /\ CodecIdle /\ EcnIdle /\ LoopIdle

PipeSpec == PipeStart /\ [][PipeNext]_vars

\* ------------------------------------------------ every event, every ending
\* the events the inbound context can fire
InboundEvents ==
    {"transport_active", "transport_inactive", "read", "read_exception",
     "read_eof", "read_timeout", "poll_timeout"}

\* a finalized pipeline of forwarding handlers over no transport, a TCP
\* transport or a UDP transport
EventInit ==
    /\ inKind = [h \in Handlers |-> "default"]
    /\ outKind \in {k \in [Handlers -> {"default", "tcp", "udp"}] :
                      \A h \in Handlers : h > 1 => k[h] = "default"}
    /\ rin = [h \in Handlers |-> "bytes"]
    /\ stack = [t \in Tasks |-> <<>>]
    /\ busy = [t \in Tasks |-> FALSE]
    /\ lock = [l \in LockIds |-> "free"]
    /\ log = [t \in Tasks |-> <<>>]
    /\ writer = TRUE
    /\ wire = <<>>
    /\ nreads = 0
    /\ napp = 0

\* the pipeline's inbound entry points: enter at the first inbound handler
PipelineEvent ==
    /\ ReadReturned
    /\ nreads < MaxReads
    /\ \E e \in InboundEvents :
         stack' = [stack EXCEPT !["driver"] =
                     Append(@, Frame("in", 1, e,
                                     IF e = "read" THEN NetMsg(nreads + 1, FALSE)
                                     ELSE NoMsg, TRUE))]
    /\ busy' = [busy EXCEPT !["driver"] = TRUE]
    /\ nreads' = nreads + 1
    /\ UNCHANGED <<inKind, outKind, rin, lock, log, writer, wire, napp>>
    /\ UNCHANGED <<bvars, cvars, evars, lvars>>

EventNext ==
    \/ PipelineEvent
    \/ PipelineWrite
    \/ PipelineClose
    \/ \E t \in Tasks : LockHandler(t)
    \/ \E t \in Tasks : LockContext(t)
    \/ \E t \in Tasks : Fire(t)
    \/ \E t \in Tasks : FireEnd(t)
    \/ \E t \in Tasks : Return(t)

EventStart == EventInit /\ BootIdle /\ CodecIdle /\ EcnIdle /\ LoopIdle

EventSpec == EventStart /\ [][EventNext]_vars

\* ------------------------------------------------ the transport handlers
\* the peer addresses a TaggedBytesMut may carry
Peers == {1, 2}

\* TaggedBytesMut { transport: TransportContext { peer_addr: p, .. }, message }
TaggedMsg(k, p) == [src |-> "app", n |-> k, ty |-> "bytes", bye |-> FALSE, peer |-> p]

\* a finalized pipeline whose first handler is AsyncTransportTcp or
\* AsyncTransportUdp, followed by forwarding handlers
TransportInit ==
    /\ inKind = [h \in Handlers |-> "default"]
    /\ outKind \in {k \in [Handlers -> {"default", "tcp", "udp"}] :
                      /\ k[1] # "default"
                      /\ \A h \in Handlers : h > 1 => k[h] = "default"}
    /\ rin = [h \in Handlers |-> "bytes"]
    /\ stack = [t \in Tasks |-> <<>>]
    /\ busy = [t \in Tasks |-> FALSE]
    /\ lock = [l \in LockIds |-> "free"]
    /\ log = [t \in Tasks |-> <<>>]
    /\ writer = TRUE
    /\ wire = <<>>
    /\ nreads = 0
    /\ napp = 0

\* pipeline.write(TaggedBytesMut {..}).await, with or without a peer address
TransportWrite ==
    /\ ~busy["app"]
    /\ napp < MaxTransportCalls
    /\ \E p \in {0} \cup Peers :
         stack' = [stack EXCEPT !["app"] =
                     Append(@, Frame("out", NumHandlers, "write",
                                     TaggedMsg(napp + 1, p), TRUE))]
    /\ busy' = [busy EXCEPT !["app"] = TRUE]
    /\ napp' = napp + 1
    /\ UNCHANGED <<inKind, outKind, rin, lock, log, writer, wire, nreads>>
    /\ UNCHANGED <<bvars, cvars, evars, lvars>>

\* pipeline.close().await
TransportClose ==
    /\ ~busy["app"]
    /\ napp < MaxTransportCalls
    /\ stack' = [stack EXCEPT !["app"] =
                   Append(@, Frame("out", NumHandlers, "close", NoMsg, TRUE))]
    /\ busy' = [busy EXCEPT !["app"] = TRUE]
    /\ napp' = napp + 1
    /\ UNCHANGED <<inKind, outKind, rin, lock, log, writer, wire, nreads>>
    /\ UNCHANGED <<bvars, cvars, evars, lvars>>

TransportNext ==
    \/ TransportWrite
    \/ TransportClose
    \/ \E t \in Tasks : LockHandler(t)
    \/ \E t \in Tasks : LockContext(t)
    \/ \E t \in Tasks : Fire(t)
    \/ \E t \in Tasks : FireEnd(t)
    \/ \E t \in Tasks : Return(t)

TransportStart == TransportInit /\ BootIdle /\ CodecIdle /\ EcnIdle /\ LoopIdle

TransportSpec == TransportStart /\ [][TransportNext]_vars

\* ======================================== read_exception along the inbound chain
\* a finalized pipeline with at most one ByteToMessageCodec and at most one
\* handler declared for another message type than the one it is given
ExcInit ==
    /\ inKind \in {k \in [Handlers -> {"default", "codec"}] :
                     Cardinality({h \in Handlers : k[h] = "codec"}) <= 1}
    /\ outKind = [h \in Handlers |-> IF h = 1 THEN "tcp" ELSE "default"]
    /\ rin \in {r \in [Handlers -> Types] :
                  Cardinality({h \in Handlers : r[h] = "string"}) <= 1}
    /\ stack = [t \in Tasks |-> <<>>]
    /\ busy = [t \in Tasks |-> FALSE]
    /\ lock = [l \in LockIds |-> "free"]
    /\ log = [t \in Tasks |-> <<>>]
    /\ writer = TRUE
    /\ wire = <<>>
    /\ nreads = 0
    /\ napp = 0

\* pipeline.read(msg) with bytes the decoder accepts or fails on
ExcRead ==
    /\ ReadReturned
    /\ nreads < MaxReads
    /\ \E m \in {NetMsg(nreads + 1, FALSE), Undecodable(nreads + 1)} :
         stack' = [stack EXCEPT !["driver"] =
                     Append(@, Frame("in", 1, "read", m, TRUE))]
    /\ busy' = [busy EXCEPT !["driver"] = TRUE]
    /\ nreads' = nreads + 1
    /\ UNCHANGED <<inKind, outKind, rin, lock, log, writer, wire, napp>>
    /\ UNCHANGED <<bvars, cvars, evars, lvars>>

ExcNext ==
    \/ ExcRead
    \/ \E t \in Tasks : LockHandler(t)
    \/ \E t \in Tasks : LockContext(t)
    \/ \E t \in Tasks : Fire(t)
    \/ \E t \in Tasks : FireEnd(t)
    \/ \E t \in Tasks : Return(t)

ExcStart == ExcInit /\ BootIdle /\ CodecIdle /\ EcnIdle /\ LoopIdle

ExcSpec == ExcStart /\ [][ExcNext]_vars

\* ================================================== process_pipeline in detail
\* Time is kept relative to the current instant: eto and timeout hold what is
\* left until the deadline and until the timer fires, and Tick lets one unit
\* of time pass. A time that is over stays at -1: only its sign is used.
Elapse(x) == IF x >= 0 THEN x - 1 ELSE x

\* the deadlines poll_timeout can leave in eto: past, now, or up to one unit
\* later than the default the driver put there
Deadlines == {d - 1 : d \in 0..(MaxDuration + 2)}

\* a message of n bytes on the outbound channel
Transmit(k, n) == [id |-> k, len |-> n]

\* bytes 1..n of message m
BytesOf(m, n) == [i \in 1..n |-> <<m.id, i>>]

LoopInit ==
    /\ ppc = "top"
    /\ eto = 0
    /\ delay_from_now = 0
    /\ timeout = 0
    /\ iter = IterInit
    /\ close_rx = FALSE
    /\ out_tx = TRUE
    /\ receiver = <<>>
    /\ enq = <<>>
    /\ deq = <<>>
    /\ socket = <<>>

\* one unit of time passes
Tick ==
    /\ ppc \notin {"none", "done"}
    /\ eto' = Elapse(eto)
    /\ timeout' = IF timeout > 0 THEN timeout - 1 ELSE timeout
    /\ UNCHANGED <<ppc, delay_from_now, iter, close_rx, out_tx, receiver, enq,
                   deq, socket>>
    /\ UNCHANGED <<bvars, pvars, cvars, evars>>

\* let mut eto = Instant::now() + Duration::from_secs(MAX_DURATION_IN_SECS)
LoopTop ==
    /\ ppc = "top"
    /\ eto' = MaxDuration
    /\ iter' = IterInit
    /\ ppc' = "poll"
    /\ UNCHANGED <<delay_from_now, timeout, close_rx, out_tx, receiver, enq,
                   deq, socket>>
    /\ UNCHANGED <<bvars, pvars, cvars, evars>>

\* pipeline.poll_timeout(&mut eto): the handlers leave a deadline in eto
LoopPoll ==
    /\ ppc = "poll"
    /\ \E d \in Deadlines : eto' = d
    /\ iter' = [iter EXCEPT !.polled = TRUE]
    /\ ppc' = "check"
    /\ UNCHANGED <<delay_from_now, timeout, close_rx, out_tx, receiver, enq,
                   deq, socket>>
    /\ UNCHANGED <<bvars, pvars, cvars, evars>>

\* eto.checked_duration_since(Instant::now()).unwrap_or(Duration::from_secs(0))
DelayFromNow(e) == IF e > 0 THEN e ELSE 0

IsZeroNever(d) == FALSE

\* delay_from_now.is_zero()
IsZero(d) == d = 0

\* the delay is computed; when it is zero: handle_timeout(now) and continue
LoopCheck ==
    /\ ppc = "check"
    /\ IF IsZero(DelayFromNow(eto))
       THEN /\ iter' = [iter EXCEPT !.checked = TRUE, !.atcheck = eto,
                                    !.fired = "expired", !.late = 0 - eto]
            /\ ppc' = "top"
            /\ eto' = 0
            /\ delay_from_now' = 0
       ELSE /\ iter' = [iter EXCEPT !.checked = TRUE, !.atcheck = eto]
            /\ ppc' = "arm"
            /\ eto' = eto
            /\ delay_from_now' = DelayFromNow(eto)
    /\ UNCHANGED <<timeout, close_rx, out_tx, receiver, enq, deq, socket>>
    /\ UNCHANGED <<bvars, pvars, cvars, evars>>

\* let timeout = Timer::after(delay_from_now); then the select! is entered
LoopArm ==
    /\ ppc = "arm"
    /\ timeout' = delay_from_now
    /\ iter' = [iter EXCEPT !.armed = @ + 1, !.waited = TRUE]
    /\ ppc' = "select"
    /\ UNCHANGED <<eto, delay_from_now, close_rx, out_tx, receiver, enq, deq,
                   socket>>
    /\ UNCHANGED <<bvars, pvars, cvars, evars>>

\* the end of the loop body: eto, delay_from_now and timeout go out of scope
EndOfIteration ==
    /\ eto' = 0
    /\ delay_from_now' = 0
    /\ timeout' = 0

LoopSelectCloseContinues ==
    /\ ppc = "select"
    /\ close_rx
    /\ iter' = [iter EXCEPT !.fired = "close"]
    /\ ppc' = "top"
    /\ EndOfIteration
    /\ UNCHANGED <<close_rx, out_tx, receiver,
                   enq, deq, socket>>
    /\ UNCHANGED <<bvars, pvars, cvars, evars>>

\* _ = close_rx.recv() => break
LoopSelectClose ==
    /\ ppc = "select"
    /\ close_rx
    /\ iter' = [iter EXCEPT !.fired = "close"]
    /\ ppc' = "exit"
    /\ EndOfIteration
    /\ UNCHANGED <<close_rx, out_tx, receiver,
                   enq, deq, socket>>
    /\ UNCHANGED <<bvars, pvars, cvars, evars>>

TimerReadyAlways(t) == TRUE

\* the Timer has fired
TimerReady(t) == t = 0

\* _ = timeout => pipeline.handle_timeout(Instant::now())
LoopSelectTimer ==
    /\ ppc = "select"
    /\ TimerReady(timeout)
    /\ iter' = [iter EXCEPT !.fired = "timer", !.late = 0 - eto]
    /\ ppc' = "top"
    /\ EndOfIteration
    /\ UNCHANGED <<close_rx, out_tx, receiver,
                   enq, deq, socket>>
    /\ UNCHANGED <<bvars, pvars, cvars, evars>>

RecvKeeps(q) == [transmit |-> Head(q), left |-> q]

\* receiver.recv() = Some(transmit): the oldest queued message is taken
RecvSome(q) == [transmit |-> Head(q), left |-> Tail(q)]

\* socket.write(&transmit.message) = Ok(n): the socket took the first n bytes
SocketWrite(sock, m, n) == sock \o BytesOf(m, n)

\* opt = receiver.recv() => Some(transmit): one socket.write, Ok(n) or Err
LoopSelectRecv ==
    /\ ppc = "select"
    /\ receiver # <<>>
    /\ LET r == RecvSome(receiver)
       IN /\ receiver' = r.left
          /\ deq' = Append(deq, r.transmit)
          /\ \E res \in {"ok", "err"} :
               IF res = "ok"
               THEN /\ \E n \in 1..r.transmit.len :
                         socket' = SocketWrite(socket, r.transmit, n)
                    /\ ppc' = "top"
                    /\ iter' = [iter EXCEPT !.fired = "recv"]
               ELSE /\ socket' = socket
                    /\ ppc' = "exit"
                    /\ iter' = [iter EXCEPT !.fired = "write_err"]
    /\ EndOfIteration
    /\ UNCHANGED <<close_rx, out_tx, enq>>
    /\ UNCHANGED <<bvars, pvars, cvars, evars>>

\* opt = receiver.recv() => None: nothing queued and the sender is gone
LoopSelectRecvNone ==
    /\ ppc = "select"
    /\ receiver = <<>>
    /\ ~out_tx
    /\ iter' = [iter EXCEPT !.fired = "recv_none"]
    /\ ppc' = "exit"
    /\ EndOfIteration
    /\ UNCHANGED <<close_rx, out_tx, receiver,
                   enq, deq, socket>>
    /\ UNCHANGED <<bvars, pvars, cvars, evars>>

\* the channel gets one more message (sender.send)
Send(n) ==
    /\ out_tx
    /\ Len(enq) < MaxMsgs
    /\ LET m == Transmit(Len(enq) + 1, n)
       IN /\ receiver' = Append(receiver, m)
          /\ enq' = Append(enq, m)

\* res = socket.read(&mut buf): data is handed to the pipeline, whose handlers
\* may write a message; Ok(0) and Err leave the loop
LoopSelectRead ==
    /\ ppc = "select"
    /\ \E res \in {"data", "reply", "eof", "err"} :
         CASE res = "data" ->
                /\ ppc' = "top"
                /\ iter' = [iter EXCEPT !.fired = "read"]
                /\ UNCHANGED <<receiver, enq>>
           [] res = "reply" ->
                /\ ppc' = "top"
                /\ iter' = [iter EXCEPT !.fired = "read"]
                /\ \E n \in 1..MaxMsgLen : Send(n)
           [] res = "eof" ->
                /\ ppc' = "exit"
                /\ iter' = [iter EXCEPT !.fired = "read_eof"]
                /\ UNCHANGED <<receiver, enq>>
           [] res = "err" ->
                /\ ppc' = "exit"
                /\ iter' = [iter EXCEPT !.fired = "read_err"]
                /\ UNCHANGED <<receiver, enq>>
    /\ EndOfIteration
    /\ UNCHANGED <<close_rx, out_tx, deq, socket>>
    /\ UNCHANGED <<bvars, pvars, cvars, evars>>

\* pipeline.transport_inactive(); the task returns and drops the receiver
LoopExit ==
    /\ ppc = "exit"
    /\ ppc' = "done"
    /\ UNCHANGED <<eto, delay_from_now, timeout, iter, close_rx, out_tx,
                   receiver, enq, deq, socket>>
    /\ UNCHANGED <<bvars, pvars, cvars, evars>>

\* the application writes through the pipeline connect() returned
AppWrite ==
    /\ ppc \notin {"none", "done"}
    /\ \E n \in 1..MaxMsgLen : Send(n)
    /\ UNCHANGED <<ppc, eto, delay_from_now, timeout, iter, close_rx, out_tx,
                   deq, socket>>
    /\ UNCHANGED <<bvars, pvars, cvars, evars>>

\* outbound close reaches the transport handler: the sender is dropped
AppClose ==
    /\ ppc \notin {"none", "done"}
    /\ out_tx
    /\ out_tx' = FALSE
    /\ UNCHANGED <<ppc, eto, delay_from_now, timeout, iter, close_rx, receiver,
                   enq, deq, socket>>
    /\ UNCHANGED <<bvars, pvars, cvars, evars>>

\* stop(): close_tx.try_broadcast(())
AppStop ==
    /\ ppc \notin {"none", "done"}
    /\ ~close_rx
    /\ close_rx' = TRUE
    /\ UNCHANGED <<ppc, eto, delay_from_now, timeout, iter, out_tx, receiver,
                   enq, deq, socket>>
    /\ UNCHANGED <<bvars, pvars, cvars, evars>>

LoopNext ==
    \/ Tick
    \/ LoopTop
    \/ LoopPoll
    \/ LoopCheck
    \/ LoopArm
    \/ LoopSelectClose
    \/ LoopSelectTimer
    \/ LoopSelectRecv
    \/ LoopSelectRecvNone
    \/ LoopSelectRead
    \/ LoopExit
    \/ AppWrite
    \/ AppClose
    \/ AppStop

LoopStart == LoopInit /\ BootIdle /\ PipeIdle /\ CodecIdle /\ EcnIdle

LoopSpec == LoopStart /\ [][LoopNext]_vars

\* time passes, the task is polled again after each await, and a timer that
\* has fired is seen by the select!
LoopFairness ==
    /\ WF_vars(Tick /\ timeout' # timeout)
    /\ WF_vars(LoopTop)
    /\ WF_vars(LoopPoll)
    /\ WF_vars(LoopCheck)
    /\ WF_vars(LoopArm)
    /\ WF_vars(LoopSelectTimer)

LoopFairSpec == LoopStart /\ [][LoopNext]_vars /\ LoopFairness

\* ================================================================ EcnCodepoint
U8Max == 255

RECURSIVE BitAnd(_, _)
\* x & y on naturals, bit by bit
BitAnd(x, y) ==
    IF x = 0 \/ y = 0 THEN 0
    ELSE (x % 2) * (y % 2) + 2 * BitAnd(x \div 2, y \div 2)

\* the discriminants of #[repr(u8)] enum EcnCodepoint
Discriminant == [Ect0 |-> 2, Ect1 |-> 1, Ce |-> 3]

EcnVariants == DOMAIN Discriminant

FromBitsSwapped(x) ==
    LET low == BitAnd(x, 3)
    IN IF low = 2 THEN "Ect1"
       ELSE IF low = 1 THEN "Ect0"
       ELSE IF low = 3 THEN "Ce"
       ELSE "None"

\* EcnCodepoint::from_bits: match x & 0b11
from_bits(x) ==
    LET low == BitAnd(x, 3)
    IN IF low = 2 THEN "Ect0"
       ELSE IF low = 1 THEN "Ect1"
       ELSE IF low = 3 THEN "Ce"
       ELSE "None"

EcnInit ==
    /\ ecn_x \in 0..U8Max
    /\ ecn_out = "unset"
    /\ ecn_back = "unset"

\* EcnCodepoint::from_bits(x)
EcnFromBits ==
    /\ ecn_out = "unset"
    /\ ecn_out' = from_bits(ecn_x)
    /\ UNCHANGED <<ecn_x, ecn_back>>
    /\ UNCHANGED <<bvars, pvars, cvars, lvars>>

\* EcnCodepoint::from_bits(v as u8) for the variant v returned before
EcnFromVariant ==
    /\ ecn_out \in EcnVariants
    /\ ecn_back = "unset"
    /\ ecn_back' = from_bits(Discriminant[ecn_out])
    /\ UNCHANGED <<ecn_x, ecn_out>>
    /\ UNCHANGED <<bvars, pvars, cvars, lvars>>

EcnNext == EcnFromBits \/ EcnFromVariant

EcnStart == EcnInit /\ BootIdle /\ PipeIdle /\ CodecIdle /\ LoopIdle

EcnSpec == EcnStart /\ [][EcnNext]_vars

\* ========================================================= ByteToMessageCodec
Bytes == {"a", "CR", "LF"}

RECURSIVE SeqsUpTo(_)
\* the byte sequences of length at most n
SeqsUpTo(n) ==
    IF n = 0 THEN {<<>>}
    ELSE LET shorter == SeqsUpTo(n - 1)
         IN shorter \cup {Append(q, b) : q \in {r \in shorter : Len(r) = n - 1},
                                         b \in Bytes}

\* a decode result: Ok(Some(frame)), Ok(None) or Err, and what is left in buf
Result(res, frame, left) == [res |-> res, frame |-> frame, left |-> left]

\* strip_delimiter = true with BOTH: a CR right before the LF goes with it
StripCR(f) ==
    IF f # <<>> /\ f[Len(f)] = "CR" THEN SubSeq(f, 1, Len(f) - 1) ELSE f

\* LineBasedFrameDecoder(LineMax, strip_delimiter = true, BOTH)::decode
LineDecode(buf) ==
    LET hits == {i \in DOMAIN buf : buf[i] = "LF"}
    IN IF hits # {}
       THEN LET i == CHOOSE j \in hits : \A k \in hits : j <= k
            IN Result("some", StripCR(SubSeq(buf, 1, i - 1)),
                      SubSeq(buf, i + 1, Len(buf)))
       ELSE IF Len(buf) > LineMax THEN Result("err", <<>>, <<>>)
       ELSE Result("none", <<>>, buf)

\* what some MessageDecoder may answer: a frame taken off the front of buf,
\* Ok(None), or an error
AnyDecode(buf) ==
    {Result("some", SubSeq(buf, 1, k), SubSeq(buf, k + 1, Len(buf))) :
        k \in 1..Len(buf)}
    \cup {Result("none", <<>>, buf), Result("err", <<>>, buf)}

\* self.message_decoder.decode(message)
Decode(buf) == IF decoder = "line" THEN {LineDecode(buf)} ELSE AnyDecode(buf)

Recv(e, b) == [k |-> "recv", ev |-> e, body |-> b]

Fired(e, b) == [k |-> "fire", ev |-> e, body |-> b]

Decoded(r) == [k |-> "decode", ev |-> r.res, body |-> r.frame]

\* the events the codec has received
Received == SelectSeq(ctrace, LAMBDA e : e.k = "recv")

CodecInit ==
    /\ decoder \in {"any", "line"}
    /\ transport_active = FALSE
    /\ message = <<>>
    /\ cpc = "idle"
    /\ ctrace = <<>>
    /\ whole \in SeqsUpTo(MaxLen)
    /\ rest = whole

\* ByteToMessageDecoder::transport_active
CodecActive ==
    /\ cpc = "idle"
    /\ Len(Received) < MaxCodecEvents
    /\ transport_active' = TRUE
    /\ ctrace' = ctrace \o <<Recv("transport_active", <<>>),
                             Fired("transport_active", <<>>)>>
    /\ UNCHANGED <<decoder, message, cpc, whole, rest>>
    /\ UNCHANGED <<bvars, pvars, evars, lvars>>

\* ByteToMessageDecoder::transport_inactive
CodecInactive ==
    /\ cpc = "idle"
    /\ Len(Received) < MaxCodecEvents
    /\ transport_active' = FALSE
    /\ ctrace' = ctrace \o <<Recv("transport_inactive", <<>>),
                             Fired("transport_inactive", <<>>)>>
    /\ UNCHANGED <<decoder, message, cpc, whole, rest>>
    /\ UNCHANGED <<bvars, pvars, evars, lvars>>

\* ByteToMessageDecoder::read is called with the next chunk of the peer's
\* bytes: the buffer it decodes from is that chunk
CodecRead ==
    /\ cpc = "idle"
    /\ Len(Received) < MaxCodecEvents
    /\ \E k \in 1..Len(rest) :
         /\ message' = SubSeq(rest, 1, k)
         /\ rest' = SubSeq(rest, k + 1, Len(rest))
         /\ ctrace' = Append(ctrace, Recv("read", SubSeq(rest, 1, k)))
    /\ cpc' = "while"
    /\ UNCHANGED <<decoder, transport_active, whole>>
    /\ UNCHANGED <<bvars, pvars, evars, lvars>>

WhileAlways == TRUE

\* while self.transport_active
WhileCond == transport_active

AfterErrContinue == "while"

\* Err(err) => { fire_read_exception(err); return; }
AfterErr == "idle"

LeftUntouched(buf, r) == buf

\* decode(message) works on the caller's buffer: what the decoder took off it
\* is gone when the loop comes round
LeftInBuffer(buf, r) == r.left

\* one turn of the loop: decode, then fire or return
CodecDecode ==
    /\ cpc = "while"
    /\ WhileCond
    /\ \E r \in Decode(message) :
         /\ message' = LeftInBuffer(message, r)
         /\ CASE r.res = "some" ->
                   /\ ctrace' = ctrace \o <<Decoded(r), Fired("read", r.frame)>>
                   /\ cpc' = "while"
              [] r.res = "none" ->
                   /\ ctrace' = Append(ctrace, Decoded(r))
                   /\ cpc' = "idle"
              [] r.res = "err" ->
                   /\ ctrace' = ctrace \o <<Decoded(r), Fired("read_exception", <<>>)>>
                   /\ cpc' = AfterErr
    /\ UNCHANGED <<decoder, transport_active, whole, rest>>
    /\ UNCHANGED <<bvars, pvars, evars, lvars>>

\* the loop condition is false: read returns
CodecReturn ==
    /\ cpc = "while"
    /\ ~WhileCond
    /\ cpc' = "idle"
    /\ UNCHANGED <<decoder, transport_active, message, ctrace, whole, rest>>
    /\ UNCHANGED <<bvars, pvars, evars, lvars>>

CodecNext ==
    \/ CodecActive
    \/ CodecInactive
    \/ CodecRead
    \/ CodecDecode
    \/ CodecReturn

CodecStart == CodecInit /\ BootIdle /\ PipeIdle /\ EcnIdle /\ LoopIdle

CodecSpec == CodecStart /\ [][CodecNext]_vars

\* a read call that was entered keeps running: decode is a plain call and
\* each fire_read it awaits returns
CodecFairness == WF_vars(CodecDecode) /\ WF_vars(CodecReturn)

CodecFairSpec == CodecStart /\ [][CodecNext]_vars /\ CodecFairness

\* ===================================================================== claims

\* C1: when a stop() call that found the bootstrap's wait-group (a bound
\* listener) has returned, the listener task of that bind has exited and every
\* driver task that listener spawned has exited and released its worker.
StopJoinsAll ==
    \A s \in Stops :
        (stopst[s] = "returned" /\ stopwg[s] # 0) =>
            /\ lpc[stopwg[s]] = "done"
            /\ \A c \in Conns :
                 owner[c] = stopwg[s] => (dpc[c] = "done" /\ ~worker[c])

StopJoinsAllWitness ==
    \E s \in Stops, c \in Conns :
        /\ stopst[s] = "returned"
        /\ stopwg[s] # 0
        /\ owner[c] = stopwg[s]
        /\ exitBy[c] = "close"

\* C2: once stop() waits, it eventually returns, and by then every driver of
\* the stopped listener has left its loop and finished.
StopReachesAll ==
    \A s \in Stops :
        (stopst[s] = "waiting") ~>
            (/\ stopst[s] = "returned"
             /\ \A c \in Conns : owner[c] = stopwg[s] => dpc[c] = "done")

\* C3: per driver, transport_active is the first event and is delivered once,
\* transport_inactive is the last event and is delivered once on every way out
\* of the loop, and every other event lies between the two.
ConnectionStateMachine ==
    \A c \in Conns :
        /\ mon[c].first \in {"none", "transport_active"}
        /\ mon[c].nact <= 1
        /\ mon[c].ninact <= 1
        /\ (mon[c].ninact = 1 => mon[c].last = "transport_inactive")
        /\ (dpc[c] \in {"loop", "expired", "select", "exit"} =>
                mon[c].nact = 1 /\ mon[c].ninact = 0)
        /\ (dpc[c] = "done" /\ exitBy[c] # "addr_err" =>
                mon[c].nact = 1 /\ mon[c].ninact = 1)

ConnectionStateMachineWitness ==
    \E c \in Conns :
        /\ dpc[c] = "done"
        /\ exitBy[c] = "chan_closed"
        /\ mon[c].last = "transport_inactive"

\* C4: a 0-byte read fires read_eof once; the only event after it is
\* transport_inactive, after which the task is done and its worker released;
\* no read follows read_eof.
EofThenInactive ==
    \A c \in Conns :
        /\ mon[c].neof <= 1
        /\ ~mon[c].afterEof
        /\ (exitBy[c] = "eof" <=> mon[c].neof = 1)
        /\ (mon[c].neof = 1 =>
              \/ /\ dpc[c] = "exit"
                 /\ mon[c].last = "read_eof"
                 /\ mon[c].ninact = 0
              \/ /\ dpc[c] = "done"
                 /\ mon[c].last = "transport_inactive"
                 /\ mon[c].ninact = 1
                 /\ ~worker[c])

EofThenInactiveWitness ==
    \E c \in Conns :
        /\ exitBy[c] = "eof"
        /\ dpc[c] = "done"
        /\ mon[c].neof = 1

\* ---- reading the logs
DLog == log["driver"]

ALog == log["app"]

Begins(e) == e.k \in {"call", "mismatch"}

AllDefault == \A h \in Handlers : inKind[h] = "default"

WellTyped == \A h \in Handlers : rin[h] = "bytes"

\* the handlers whose read was invoked for inbound message n, in order
ReadCalls(n) ==
    SelectSeq(DLog, LAMBDA e : /\ e.k = "call" /\ e.dir = "in" /\ e.ev = "read"
                               /\ e.msg.src = "net" /\ e.msg.n = n)

\* the handlers whose write was invoked for the application's message k, in order
WriteCalls(k) ==
    SelectSeq(ALog, LAMBDA e : /\ e.k = "call" /\ e.dir = "out" /\ e.ev = "write"
                               /\ e.msg = AppMsg(k))

ReadDone(n) == n < nreads \/ (n = nreads /\ ~busy["driver"])

AppDone(k) == k < napp \/ (k = napp /\ ~busy["app"])

\* task t is inside a callback of half d of handler h
InHalf(t, d, h) ==
    \E i \in DOMAIN stack[t] :
        stack[t][i].dir = d /\ stack[t][i].h = h /\ stack[t][i].st = "run"

InHandler(t, h) == InHalf(t, "in", h) \/ InHalf(t, "out", h)

\* the mutex task t is waiting to lock
Wants(t) ==
    <<Top(t).dir, IF Top(t).st = "lockH" THEN "H" ELSE "C", Top(t).h>>

Waiting(t) == stack[t] # <<>> /\ Top(t).st \in {"lockH", "lockC"}

Blocked(t) == Waiting(t) /\ lock[Wants(t)] # "free"

\* the read entries of the driver's log: reads begun and reads returned
ReadEntries == SelectSeq(DLog, LAMBDA e : e.dir = "in" /\ e.ev = "read")

\* C5: the driver's log never shows a read of an earlier inbound message, begun
\* or returned at any handler, after an entry of a read of a later message:
\* the whole chain of reads for one message is over before the next one begins.
ReadsInOrder ==
    LET r == ReadEntries
    IN \A i \in 1..(Len(r) - 1) : r[i].msg.n <= r[i + 1].msg.n

ReadsInOrderWitness ==
    /\ \E i \in DOMAIN DLog :
         /\ DLog[i].k = "ret" /\ DLog[i].ev = "read"
         /\ DLog[i].h = 1 /\ DLog[i].msg.n = 1
    /\ \E j \in DOMAIN DLog :
         /\ DLog[j].k = "call" /\ DLog[j].ev = "read"
         /\ DLog[j].h = NumHandlers /\ DLog[j].msg.n = 2

\* C6: when every inbound half is the default and every handler is declared
\* for the message's type, the reads invoked for one injected message are those
\* of handlers 1, 2, .. in that order, each once, and all NumHandlers of them
\* once pipeline.read has returned.
ReadTraversal ==
    (AllDefault /\ WellTyped) =>
        \A n \in 1..nreads :
            LET r == ReadCalls(n)
            IN /\ Len(r) <= NumHandlers
               /\ \A i \in DOMAIN r : r[i].h = i
               /\ (ReadDone(n) => Len(r) = NumHandlers)

ReadTraversalWitness ==
    /\ AllDefault
    /\ WellTyped
    /\ nreads >= 1
    /\ ReadDone(1)
    /\ Len(ReadCalls(1)) = NumHandlers

\* C7: when every handler is declared for the message's type, the writes
\* invoked for one pipeline.write are those of handlers NumHandlers,
\* NumHandlers - 1, .. in that order, each once, and all of them down to the
\* transport handler 1 once pipeline.write has returned.
WriteTraversal ==
    WellTyped =>
        \A k \in 1..napp :
            LET w == WriteCalls(k)
            IN /\ Len(w) <= NumHandlers
               /\ \A i \in DOMAIN w : w[i].h = NumHandlers + 1 - i
               /\ (AppDone(k) /\ Len(w) > 0 => Len(w) = NumHandlers)

WriteTraversalWitness ==
    /\ WellTyped
    /\ napp >= 1
    /\ AppDone(1)
    /\ Len(WriteCalls(1)) = NumHandlers
    /\ wire # <<>>

\* what the driver task began in outbound halves: every such entry comes from
\* a fire_write / fire_close of the telnet handler's inbound callback
OutBegun == SelectSeq(DLog, LAMBDA e : e.dir = "out" /\ Begins(e))

OutWrites == SelectSeq(OutBegun, LAMBDA e : e.ev \in {"write", "close"})

\* C8: a write or close fired in the inbound callback of handler i is begun
\* first at handler i - 1 and then at each handler right after the one behind
\* it; nothing the driver fires outbound is begun at handlers i..NumHandlers.
WriteFromInbound ==
    LET b == OutBegun
        w == OutWrites
    IN \A i \in Handlers :
         inKind[i] = "telnet" =>
             /\ \A p \in DOMAIN b : b[p].h < i
             /\ \A p \in DOMAIN w :
                  \/ w[p].h = i - 1
                  \/ /\ p > 1
                     /\ w[p - 1].k = "call"
                     /\ w[p - 1].ev = w[p].ev
                     /\ w[p - 1].msg = w[p].msg
                     /\ w[p - 1].h = w[p].h + 1

WriteFromInboundWitness ==
    \E i \in Handlers :
        /\ inKind[i] = "telnet"
        /\ 1 < i
        /\ \E j \in DOMAIN DLog :
             /\ DLog[j].k = "call" /\ DLog[j].dir = "out"
             /\ DLog[j].ev = "close" /\ DLog[j].h = 1

\* C9: a task that waits for a per-link mutex waits for one held by the other
\* task, and that task is inside a call and is not itself waiting for a held
\* mutex: no task waits on itself and the two tasks never wait on each other.
NoDeadlock ==
    \A t \in Tasks :
        Blocked(t) =>
            /\ lock[Wants(t)] # t
            /\ stack[lock[Wants(t)]] # <<>>
            /\ ~Blocked(lock[Wants(t)])

NoDeadlockWitness ==
    /\ Blocked("app")
    /\ lock[Wants("app")] = "driver"
    /\ \E i \in DOMAIN stack["driver"] : stack["driver"][i].dir = "in"
    /\ Top("driver").dir = "out"

\* C10 as claimed: no handler has callbacks running on two tasks at once.
NoHandlerOnTwoTasks ==
    \A h \in Handlers : ~(InHandler("driver", h) /\ InHandler("app", h))

\* C10 amended: no half of a handler (its inbound half, its outbound half) has
\* callbacks running on two tasks at once.
NoHalfOnTwoTasks ==
    \A h \in Handlers, d \in {"in", "out"} :
        ~(InHalf("driver", d, h) /\ InHalf("app", d, h))

NoHalfOnTwoTasksWitness ==
    \E h \in Handlers :
        /\ InHalf("driver", "out", h)
        /\ Waiting("app")
        /\ Wants("app") = <<"out", "H", h>>

\* ---- what reached the end of the pipeline
\* the entries a fire_* call on a context with no next link left in the logs
EndEntries(t) == SelectSeq(log[t], LAMBDA e : e.k \in {"eop", "end"})

\* C11: every fire_* call on a context that has no next link emits a
\* diagnostic log (and returns, invoking no handler).
EndOfPipelineLogged ==
    \A t \in Tasks :
        LET r == EndEntries(t)
        IN \A i \in DOMAIN r : r[i].k = "eop"

\* C12: a read is invoked only at a handler declared for the message's type;
\* at a handler that is not, the driver's next step is the read_exception
\* naming that handler (at the next handler, or the end-of-pipeline log when
\* there is none), and no handler from that one on has its read invoked for
\* the message.
MismatchStopsRead ==
    LET L == DLog
    IN \A i \in DOMAIN L :
         /\ (L[i].k = "call" /\ L[i].dir = "in" /\ L[i].ev = "read") =>
                L[i].msg.ty = rin[L[i].h]
         /\ (L[i].k = "mismatch" /\ L[i].dir = "in") =>
                /\ L[i].msg.ty # rin[L[i].h]
                /\ \A j \in DOMAIN L :
                     ~(/\ L[j].k = "call" /\ L[j].ev = "read"
                       /\ L[j].msg = L[i].msg /\ L[j].h >= L[i].h)
                /\ i < Len(L) =>
                     /\ L[i + 1].ev = "read_exception"
                     /\ L[i + 1].msg = DowncastErr(L[i].h)
                     /\ IF L[i].h < NumHandlers
                        THEN L[i + 1].k = "call" /\ L[i + 1].h = L[i].h + 1
                        ELSE L[i + 1].k = "eop"

MismatchStopsReadWitness ==
    \E i \in DOMAIN DLog :
        /\ DLog[i].k = "mismatch" /\ DLog[i].dir = "in"
        /\ DLog[i].h = 2
        /\ i < Len(DLog)
        /\ DLog[i + 1].k = "call"
        /\ DLog[i + 1].ev = "read_exception"
        /\ ReadDone(DLog[i].msg.n)

\* ---- reading the codec's trace
IsLife(e) == e.k = "recv" /\ e.ev \in {"transport_active", "transport_inactive"}

\* the last lifecycle event received before entry i was transport_active
ActiveAt(T, i) ==
    LET life == {j \in 1..(i - 1) : j <= Len(T) /\ IsLife(T[j])}
    IN /\ life # {}
       /\ T[CHOOSE j \in life : \A k \in life : k <= j].ev = "transport_active"

\* C13: within one read call, each frame the decoder returns is fired as one
\* read right after it was decoded, and nothing else is fired as a read; after
\* Ok(None) the call does nothing more; after an error it fires one
\* read_exception and does nothing more, and no read_exception is fired
\* otherwise.
DecodeLoop ==
    LET T == ctrace
    IN \A i \in DOMAIN T :
         /\ (T[i].k = "decode" /\ T[i].ev = "some") =>
                (i < Len(T) /\ T[i + 1] = Fired("read", T[i].body))
         /\ (T[i].k = "decode" /\ T[i].ev = "none") =>
                (i = Len(T) \/ T[i + 1].k = "recv")
         /\ (T[i].k = "decode" /\ T[i].ev = "err") =>
                /\ i < Len(T)
                /\ T[i + 1] = Fired("read_exception", <<>>)
                /\ (i + 1 = Len(T) \/ T[i + 2].k = "recv")
                /\ (i + 1 = Len(T) => cpc = "idle")
         /\ (T[i].k = "fire" /\ T[i].ev = "read") =>
                (i > 1 /\ T[i - 1].k = "decode" /\ T[i - 1].ev = "some"
                       /\ T[i - 1].body = T[i].body)
         /\ (T[i].k = "fire" /\ T[i].ev = "read_exception") =>
                (i > 1 /\ T[i - 1].k = "decode" /\ T[i - 1].ev = "err")

DecodeLoopWitness ==
    \E i \in DOMAIN ctrace :
        /\ i + 4 <= Len(ctrace)
        /\ ctrace[i].k = "decode" /\ ctrace[i].ev = "some"
        /\ ctrace[i + 2].k = "decode" /\ ctrace[i + 2].ev = "err"
        /\ ctrace[i + 3].ev = "read_exception"
        /\ ctrace[i + 4].k = "recv" /\ ctrace[i + 4].ev = "read"

\* C14: the flag is true exactly when the last lifecycle event received was
\* transport_active (false before any); the decoder is called only in a read
\* received while it is true, and a read received while it is false is followed
\* by no decoder call and by nothing fired.
DecodesOnlyWhileActive ==
    LET T == ctrace
    IN /\ transport_active = ActiveAt(T, Len(T) + 1)
       /\ \A i \in DOMAIN T :
            /\ (\/ T[i].k = "decode"
                \/ T[i].k = "fire" /\ T[i].ev \in {"read", "read_exception"})
                   => ActiveAt(T, i)
            /\ (T[i].k = "recv" /\ T[i].ev = "read" /\ ~ActiveAt(T, i)) =>
                   (i = Len(T) \/ T[i + 1].k = "recv")

DecodesOnlyWhileActiveWitness ==
    /\ cpc = "idle"
    /\ Len(ctrace) = 5
    /\ ctrace[1].ev = "transport_active"
    /\ ctrace[3].ev = "transport_inactive"
    /\ ctrace[5].k = "recv" /\ ctrace[5].ev = "read"
    /\ Len(ctrace[5].body) > 1

\* ---- lines
RECURSIVE SplitLines(_, _)
\* the terminated lines of s, each without its LF or CR LF; cur = the line begun
SplitLines(s, cur) ==
    IF s = <<>> THEN <<>>
    ELSE IF Head(s) = "LF" THEN <<StripCR(cur)>> \o SplitLines(Tail(s), <<>>)
    ELSE SplitLines(Tail(s), Append(cur, Head(s)))

Lines(s) == SplitLines(s, <<>>)

RECURSIVE Bodies(_)
Bodies(q) == IF q = <<>> THEN <<>> ELSE <<Head(q).body>> \o Bodies(Tail(q))

\* the frames the codec fired downstream
FramesFired ==
    Bodies(SelectSeq(ctrace, LAMBDA e : e.k = "fire" /\ e.ev = "read"))

\* the codec was activated first, was never deactivated and met no decode error
ServedWhole ==
    /\ decoder = "line"
    /\ ctrace # <<>>
    /\ ctrace[1].ev = "transport_active"
    /\ \A i \in DOMAIN ctrace :
         /\ ctrace[i].ev # "transport_inactive"
         /\ ctrace[i].ev # "err"
    /\ rest = <<>>
    /\ cpc = "idle"

\* C15: once all of s has been delivered, in whatever chunks, to an active
\* codec over the line decoder, the frames fired are the lines of s.
ChunkingIndependent == ServedWhole => FramesFired = Lines(whole)

\* C16: once a read callback has written to the outbound channel and closed
\* (the sender is dropped, the bytes are still queued), the driver leaves its
\* loop only by way of the socket write that takes those bytes off the queue.
FarewellWritten ==
    [][\A c \in Conns :
          (/\ dpc[c] = "select" /\ ~sender[c] /\ outq[c] > 0
           /\ dpc'[c] = "exit") => outq'[c] < outq[c]]_vars

\* ---- what reached the transport handler
\* the calls of the transport handler's outbound half, in order
AtTransport == SelectSeq(ALog, LAMBDA e : e.k = "call" /\ e.dir = "out" /\ e.h = 1)

InWire(m) == \E i \in DOMAIN wire : wire[i] = m

\* C17: a write that reaches the transport handler after a close reached it
\* puts nothing on the transport.
NoWriteAfterClose ==
    LET A == AtTransport
    IN \A i \in DOMAIN A, j \in DOMAIN A :
         (i < j /\ A[i].ev = "close" /\ A[j].ev = "write") => ~InWire(A[j].msg)

\* the calls and what followed them in the application's log, from the moment
\* a call reached the transport handler
ClosesAtTransport == SelectSeq(AtTransport, LAMBDA e : e.ev = "close")

\* C18: however many closes have reached the transport handler, it is in the
\* state the first one left it in (TCP: writer dropped; UDP: as before), each
\* close call is followed at once by its return or its end-of-pipeline log,
\* never by an exception, and no close waits for a mutex that is held.
CloseIdempotent ==
    /\ (Len(ClosesAtTransport) >= 1 => writer = ~IsTransport(1))
    /\ (Len(ClosesAtTransport) = 0 => writer)
    /\ ~Blocked("app")
    /\ LET L == ALog
       IN \A i \in DOMAIN L :
            (L[i].k = "call" /\ L[i].ev = "close" /\ L[i].h = 1 /\ i < Len(L)) =>
                /\ L[i + 1].ev = "close"
                /\ L[i + 1].k = IF IsTransport(1) THEN "ret" ELSE "eop"
                /\ \A j \in DOMAIN L :
                     j > i =>
                        (L[j].ev \in {"write_exception", "read_exception"} =>
                            \E w \in DOMAIN L :
                                i < w /\ w < j /\ L[w].k = "call" /\ L[w].ev = "write")

CloseIdempotentWitness ==
    /\ IsTransport(1)
    /\ Len(ClosesAtTransport) >= 2
    /\ ~busy["app"]
    /\ ~writer

\* C19: over AsyncTransportUdp, a write without a peer address that reaches
\* the transport handler puts nothing on the transport and is followed by one
\* NotConnected write_exception (which reaches the end of the pipeline) and
\* then the return of the write; the handler keeps its writer, and a write
\* with a peer address that returned without an exception is on the transport.
UdpWriteWithoutPeer ==
    IsUdp(1) =>
        /\ writer
        /\ LET L == ALog
           IN \A i \in DOMAIN L :
                (L[i].k = "call" /\ L[i].ev = "write" /\ L[i].h = 1) =>
                    IF L[i].msg.peer = 0
                    THEN /\ ~InWire(L[i].msg)
                         /\ i < Len(L) =>
                               /\ L[i + 1].k = "eop"
                               /\ L[i + 1].ev = "write_exception"
                               /\ L[i + 1].msg = NotConnected
                         /\ i + 1 < Len(L) =>
                               L[i + 2].k = "ret" /\ L[i + 2].ev = "write"
                    ELSE i < Len(L) =>
                               \/ InWire(L[i].msg) /\ L[i + 1].k = "ret"
                               \/ /\ ~InWire(L[i].msg)
                                  /\ L[i + 1].ev = "write_exception"
                                  /\ L[i + 1].msg = IoErr

UdpWriteWithoutPeerWitness ==
    /\ IsUdp(1)
    /\ \E i \in DOMAIN AtTransport, j \in DOMAIN AtTransport :
         /\ i < j
         /\ AtTransport[i].ev = "write" /\ AtTransport[i].msg.peer = 0
         /\ AtTransport[j].ev = "write" /\ AtTransport[j].msg.peer # 0
         /\ InWire(AtTransport[j].msg)

\* the writes with a peer address the application has made and that returned
WritesReturned ==
    SelectSeq(ALog, LAMBDA e : /\ e.k = "ret" /\ e.ev = "write"
                               /\ e.h = NumHandlers /\ e.msg.peer # 0)

WireCount(m) == Cardinality({i \in DOMAIN wire : wire[i] = m})

\* C20: over AsyncTransportUdp, every datagram on the transport is the message
\* of one write, bytes and target, in the order of the writes, and is there
\* once; a write with a peer address that has returned put its message there
\* once, unless the transport write failed (one write_exception, nothing sent).
UdpDatagrams ==
    IsUdp(1) =>
        /\ \A i \in DOMAIN wire :
             /\ wire[i].src = "app" /\ wire[i].peer \in Peers
             /\ WireCount(wire[i]) = 1
             /\ \A j \in DOMAIN wire : i < j => wire[i].n < wire[j].n
             /\ \E a \in DOMAIN AtTransport :
                  AtTransport[a].ev = "write" /\ AtTransport[a].msg = wire[i]
        /\ LET W == WritesReturned
           IN \A i \in DOMAIN W :
                \/ WireCount(W[i].msg) = 1
                \/ /\ WireCount(W[i].msg) = 0
                   /\ \E j \in DOMAIN ALog :
                        /\ ALog[j].k = "call" /\ ALog[j].ev = "write"
                        /\ ALog[j].h = 1 /\ ALog[j].msg = W[i].msg
                        /\ ALog[j + 1].ev = "write_exception"
                        /\ ALog[j + 1].msg = IoErr

UdpDatagramsWitness ==
    /\ IsUdp(1)
    /\ Len(wire) >= 2
    /\ wire[1].peer # wire[2].peer
    /\ Len(WritesReturned) >= 2

\* C29: from_bits(x) depends only on the low two bits of x: none for 0b00,
\* Ect1 for 0b01, Ect0 for 0b10, Ce for 0b11, so any two bytes that agree on
\* their low two bits give the same result; and from_bits(v as u8) = v.
EcnLowTwoBits ==
    /\ ecn_out # "unset" =>
          /\ ecn_out = CASE ecn_x % 4 = 0 -> "None"
                         [] ecn_x % 4 = 1 -> "Ect1"
                         [] ecn_x % 4 = 2 -> "Ect0"
                         [] ecn_x % 4 = 3 -> "Ce"
          /\ \A y \in 0..U8Max : y % 4 = ecn_x % 4 => from_bits(y) = ecn_out
    /\ ecn_back # "unset" => ecn_back = ecn_out

EcnLowTwoBitsWitness ==
    /\ ecn_x > 3
    /\ ecn_out = "Ect0"
    /\ ecn_back = "Ect0"

\* the exits of the driver loop on an error
ErrorExits == {"read_err", "write_err", "chan_closed"}

\* C23: once a socket read or write has returned an error, or the outbound
\* channel has reported that its sender is gone, the driver is out of its loop
\* for good, read_eof is not fired, and when the task has returned
\* transport_inactive has been fired, once, as the last event.
ErrorExit ==
    \A c \in Conns :
        exitBy[c] \in ErrorExits =>
            /\ dpc[c] \in {"exit", "done"}
            /\ mon[c].neof = 0
            /\ dpc[c] = "done" => /\ mon[c].last = "transport_inactive"
                                  /\ mon[c].ninact = 1

ErrorExitWitness ==
    \E c \in Conns :
        /\ exitBy[c] = "write_err"
        /\ dpc[c] = "done"
        /\ mon[c].last = "transport_inactive"

MisuseRejected ==
    /\ pipeline_factory_fn >= 2 => panicked
    /\ panicked => /\ nbinds = 0
                   /\ \A g \in Binds : lpc[g] = "none"
                   /\ \A c \in Conns : spawned[c] = 0

\* C21: every byte of a message that the driver passed to socket.write is on
\* the socket: a byte that is not the last of its message is followed by the
\* next byte of that message, at the latest when the driver is done.
AllBytesWritten ==
    \A i \in DOMAIN socket :
        LET id == socket[i][1]
            k == socket[i][2]
        IN k < enq[id].len =>
             IF i < Len(socket) THEN socket[i + 1] = <<id, k + 1>>
             ELSE ppc # "done"

\* C22: the messages the driver passed to socket.write are the first ones
\* handed to the channel, in that order and once each; the rest is still
\* queued, in order; and the socket holds bytes of those messages only, in the
\* order of the messages.
DrainedInOrder ==
    /\ Len(deq) <= Len(enq)
    /\ deq = SubSeq(enq, 1, Len(deq))
    /\ receiver = SubSeq(enq, Len(deq) + 1, Len(enq))
    /\ \A i \in DOMAIN socket :
         /\ \E j \in DOMAIN deq : deq[j].id = socket[i][1]
         /\ \A j \in DOMAIN socket :
              i < j => /\ socket[i][1] <= socket[j][1]
                       /\ socket[i] # socket[j]

DrainedInOrderWitness ==
    /\ Len(deq) >= 2
    /\ \E i, j \in DOMAIN socket : socket[i][1] # socket[j][1]

\* the timer branch calls handle_timeout only for a deadline that poll_timeout
\* left in the future, and not before that deadline
TimerNotEarly ==
    iter.fired = "timer" => iter.atcheck > 0 /\ iter.late >= 0

\* C24: the timer branch never calls handle_timeout(now') with now' earlier
\* than the deadline poll_timeout left, and a driver waiting in its select!
\* leaves it: by the timer, unless I/O or the close signal comes first.
TimerFires ==
    /\ []TimerNotEarly
    /\ (ppc = "select") ~> (iter.fired # "none")

TimerFiresWitness ==
    /\ iter.fired = "timer"
    /\ iter.atcheck > 0
    /\ iter.late >= 0
    /\ ppc = "top"

\* C25: when the deadline poll_timeout left is not later than the current
\* time, handle_timeout is fired and the driver is back at the top of its
\* loop, without having armed a timer or entered the select!.
ExpiredLoopsAgain ==
    (iter.checked /\ iter.atcheck <= 0) =>
        /\ iter.fired = "expired"
        /\ iter.late >= 0
        /\ iter.armed = 0
        /\ ~iter.waited
        /\ ppc = "top"

ExpiredLoopsAgainWitness ==
    /\ iter.checked
    /\ iter.atcheck < 0
    /\ iter.fired = "expired"

\* C26: the timer an iteration arms never runs longer than MAX_DURATION
TimerClamped ==
    iter.armed >= 1 =>
        /\ iter.armed = 1
        /\ delay_from_now <= MaxDuration

\* ---- read_exception along the chain
\* entry e of the driver's log is a read that fails in handler e.h: its
\* down-cast fails, or it is the codec and the decoder returns Err
IsOrigin(e) ==
    /\ e.dir = "in"
    /\ e.ev = "read"
    /\ \/ e.k = "mismatch"
       \/ e.k = "call" /\ inKind[e.h] = "codec" /\ e.msg.src = "bad"

\* the error that handler fires from its context
ErrOf(e) == IF e.k = "mismatch" THEN DowncastErr(e.h) ELSE DecodeErr(e.msg)

\* the index of the first entry after i that begins the next pipeline.read
NextRead(L, i) ==
    LET later == {j \in DOMAIN L : /\ j > i
                                   /\ L[j].ev = "read"
                                   /\ L[j].h = 1
                                   /\ L[j].k \in {"call", "mismatch"}}
    IN IF later = {} THEN Len(L) + 1
       ELSE CHOOSE j \in later : \A l \in later : j <= l

\* the read_exception callbacks invoked after entry i, within the same read
ExcCalls(L, i) ==
    SelectSeq(SubSeq(L, i + 1, NextRead(L, i) - 1),
              LAMBDA e : e.k = "call" /\ e.ev = "read_exception")

\* C30: a read_exception fired from the context of handler h is delivered to
\* handlers h+1, h+2, .. in that order, once each and with the same error,
\* never to h or an earlier handler; when the read has returned it has reached
\* every later handler, the last one included.
ExceptionForward ==
    LET L == DLog
    IN \A i \in DOMAIN L :
         IsOrigin(L[i]) =>
            LET X == ExcCalls(L, i)
                h == L[i].h
            IN /\ Len(X) <= NumHandlers - h
               /\ \A p \in DOMAIN X : X[p].h = h + p /\ X[p].msg = ErrOf(L[i])
               /\ (NextRead(L, i) <= Len(L) \/ ~busy["driver"]) =>
                      Len(X) = NumHandlers - h

ExceptionForwardWitness ==
    /\ ~busy["driver"]
    /\ \E i \in DOMAIN DLog :
         /\ IsOrigin(DLog[i])
         /\ DLog[i].k = "call"
         /\ DLog[i].h = 1
         /\ Len(ExcCalls(DLog, i)) = NumHandlers - 1

\* ---- outbound down-cast failures
\* C31: a write is invoked only at a handler declared for the message's type;
\* at a handler h that is not, the task's next step is the write_exception
\* naming h, delivered at handler h - 1 (the next one toward the transport, or
\* the end-of-pipeline log when h is the first), no handler from h down to the
\* transport has its write invoked for the message, and handler h fires that
\* write_exception only then: once per failed down-cast.
MismatchStopsWrite ==
    \A t \in Tasks :
        LET L == log[t]
        IN /\ \A i \in DOMAIN L :
                /\ (L[i].k = "call" /\ L[i].dir = "out" /\ L[i].ev = "write") =>
                       L[i].msg.ty = rin[L[i].h]
                /\ (L[i].k = "mismatch" /\ L[i].dir = "out") =>
                       /\ L[i].msg.ty # rin[L[i].h]
                       /\ \A j \in DOMAIN L :
                            ~(/\ L[j].k = "call" /\ L[j].ev = "write"
                              /\ L[j].msg = L[i].msg /\ L[j].h <= L[i].h)
                       /\ i < Len(L) =>
                            /\ L[i + 1].ev = "write_exception"
                            /\ L[i + 1].dir = "out"
                            /\ L[i + 1].msg = DowncastErr(L[i].h)
                            /\ IF L[i].h > 1
                               THEN L[i + 1].k = "call" /\ L[i + 1].h = L[i].h - 1
                               ELSE L[i + 1].k = "eop"
           /\ \A i \in DOMAIN L :
                (/\ L[i].ev = "write_exception" /\ L[i].msg.src = "downcast"
                 /\ \/ L[i].k = "call" /\ L[i].h = L[i].msg.n - 1
                    \/ L[i].k = "eop" /\ L[i].h = 1 /\ L[i].msg.n = 1) =>
                    /\ i > 1
                    /\ L[i - 1].k = "mismatch" /\ L[i - 1].dir = "out"
                    /\ L[i - 1].h = L[i].msg.n

MismatchStopsWriteWitness ==
    \E i \in DOMAIN ALog :
        /\ ALog[i].k = "mismatch" /\ ALog[i].dir = "out"
        /\ ALog[i].h = 2
        /\ i < Len(ALog)
        /\ ALog[i + 1].k = "call"
        /\ ALog[i + 1].ev = "write_exception"
        /\ ALog[i + 1].h = 1
        /\ AppDone(1)
        /\ wire = <<>>

\* ---- the children of a listener
\* connection c was accepted and its driver task has not returned yet
Live(c) == owner[c] # 0 /\ dpc[c] # "done"

\* every accepted connection holds a child worker until its task returns;
\* once the listener has left its loop on the close signal, the close
\* receiver of every connection it accepted is ready; the listener is done
\* only when every connection it accepted is
ChildrenJoined ==
    \A c \in Conns :
        /\ Live(c) => worker[c]
        /\ (/\ Live(c)
            /\ lpc[owner[c]] \in {"wait", "done"}
            /\ ListenerCloseReady(owner[c])) => DriverCloseReady(c)
        /\ (owner[c] # 0 /\ lpc[owner[c]] = "done") =>
               dpc[c] = "done" /\ ~worker[c]

\* an accept: the connection has its worker, and its close receiver when
\* stop() was already called, before the first step of its task
AcceptedWithWorker ==
    \A c \in Conns :
        (owner[c] = 0 /\ owner'[c] # 0) =>
            /\ lpc[owner'[c]] = "loop"
            /\ worker'[c]
            /\ dpc'[c] = "start"
            /\ (bootstrap = "BootstrapTcp" /\ ListenerCloseReady(owner'[c])) =>
                   DriverCloseReady(c)'

\* C32: a connection accepted while the listener is in its accept loop, also
\* one accepted after stop() sent the signal, has its child worker and its
\* close receiver before its task starts; the signal reaches it once the
\* listener has seen it, and the listener finishes only after the connection.
AcceptedAreJoined == []ChildrenJoined /\ [][AcceptedWithWorker]_vars

\* the listener has left on the signal while a connection it accepted, whose
\* task has not started, is still to be stopped
AcceptedAreJoinedWitness ==
    \E c \in Conns :
        /\ dpc[c] = "start"
        /\ worker[c]
        /\ lpc[owner[c]] = "wait"
        /\ chan[owner[c]].sent
        /\ DriverCloseReady(c)

\* ---- bind() again
\* the listeners of earlier binds: their close channel has lost its sender, so
\* their close_rx.recv() is ready, and so is that of each connection they
\* accepted (BootstrapTcpServer: once the listener has left its loop); the
\* bootstrap holds the sender and wait-group of the latest bind or none
EarlierBindsClosed ==
    /\ close_tx \in {0, nbinds}
    /\ wg \in {0, nbinds}
    /\ \A g \in Binds :
         g < nbinds =>
            /\ ~chan[g].open
            /\ ListenerCloseReady(g)
            /\ \A c \in Conns :
                 (/\ Live(c) /\ owner[c] = g
                  /\ (bootstrap = "BootstrapTcp" \/ lpc[g] \in {"wait", "done"}))
                     => DriverCloseReady(c)

\* a stop() call takes the wait-group of the latest bind and sends nothing on
\* the channel of an earlier one
StopsLatestOnly ==
    \A s \in Stops :
        (stopst[s] = "idle" /\ stopst'[s] # "idle") =>
            /\ stopwg'[s] \in {0, nbinds}
            /\ \A g \in Binds : g < nbinds => chan'[g] = chan[g]

\* C33: after a second bind() the channel of the first is closed, which is
\* ready at the first listener and at its connections like a stop() signal,
\* the bootstrap holds only the second bind's sender and wait-group, and a
\* later stop() sends on and waits for the second bind only.
RebindReplaces == []EarlierBindsClosed /\ [][StopsLatestOnly]_vars

\* stop() after a second bind has returned while the first listener, which
\* left its loop on the closed channel, still waits for its connection
RebindReplacesWitness ==
    \E s \in Stops, c \in Conns :
        /\ nbinds = 2
        /\ stopst[s] = "returned"
        /\ stopwg[s] = 2
        /\ owner[c] = 1
        /\ ~chan[1].sent
        /\ lpc[1] = "wait"
        /\ Live(c)

\* ---- stop() again
\* the sender and the wait-group are stored and taken together; the sender
\* still stored has sent nothing; no two stop() calls took the same wait-group
TakenOnce ==
    /\ (close_tx = 0) <=> (wg = 0)
    /\ close_tx # 0 => (close_tx = wg /\ chan[close_tx].open /\ ~chan[close_tx].sent)
    /\ \A s, r \in Stops :
         (s # r /\ stopwg[s] # 0) => stopwg[s] # stopwg[r]
    /\ \A s \in Stops : stopst[s] = "waiting" => stopwg[s] # 0

\* a () is sent on the channel of bind g only by the stop() that takes its
\* sender; a stop() that finds no sender sends nothing and has returned
OneSignalPerBind ==
    /\ \A g \in Binds :
         chan'[g].sent # chan[g].sent =>
            /\ ~chan[g].sent
            /\ close_tx = g /\ close_tx' = 0 /\ wg' = 0
            /\ \E s \in Stops : stopst[s] = "idle" /\ stopwg'[s] = g
    /\ \A s \in Stops :
         (stopst[s] = "idle" /\ stopst'[s] # "idle" /\ close_tx = 0) =>
            /\ chan' = chan
            /\ stopwg'[s] = 0
            /\ stopst'[s] = "returned"

\* C34: one () at most is sent per bind, by the stop() call that takes the
\* stored sender and wait-group together; a stop() call that finds none
\* (a later one, or one before any bind) sends nothing and returns at once,
\* also while an earlier call still waits.
StopTakesOnce == []TakenOnce /\ [][OneSignalPerBind]_vars

\* the second stop() has returned, having taken nothing, while the first still
\* waits for the listener it signalled
StopTakesOnceWitness ==
    /\ stopst[1] = "waiting"
    /\ chan[stopwg[1]].sent
    /\ stopst[2] = "returned"
    /\ stopwg[2] = 0

\* ---- a failed accept
\* the listener of bind g left its loop although no close signal is ready on
\* its close_rx: listener.accept() failed
LeftOnAcceptErr(g) == lpc[g] \in {"wait", "done"} /\ ~ListenerCloseReady(g)

\* C35: in BootstrapTcpServer, once a failed accept has ended the listener's
\* loop, a () has been sent to every connection the listener accepted, and the
\* listener is done only when each of them has exited and dropped its worker.
AcceptErrStopsChildren ==
    \A g \in Binds :
        (bootstrap = "BootstrapTcpServer" /\ LeftOnAcceptErr(g)) =>
            \A c \in Conns :
                owner[c] = g =>
                    /\ child_close[c]
                    /\ DriverCloseReady(c)
                    /\ lpc[g] = "done" => (dpc[c] = "done" /\ ~worker[c])

AcceptErrStopsChildrenWitness ==
    \E g \in Binds, c \in Conns :
        /\ bootstrap = "BootstrapTcpServer"
        /\ LeftOnAcceptErr(g)
        /\ lpc[g] = "done"
        /\ owner[c] = g
        /\ exitBy[c] = "close"
        /\ \A s \in Stops : stopst[s] = "idle"

\* ---- leaving on the close signal
\* the select! has just taken its close branch
TakesClose == ppc = "select" /\ iter'.fired = "close"

\* the loop was left: no branch of the select! runs any more
LeftLoop == ppc \in {"exit", "done"}

\* the close branch takes nothing from the channel, writes nothing and leaves
\* the loop; once the loop is left nothing is taken from the channel or
\* written to the socket, and no further branch (a 0-byte read, say) is taken
ClosedForGood ==
    /\ TakesClose =>
          /\ ppc' = "exit"
          /\ receiver' = receiver /\ deq' = deq /\ socket' = socket
    /\ LeftLoop =>
          /\ ppc' \in {"exit", "done"}
          /\ deq' = deq /\ socket' = socket
          /\ iter'.fired = iter.fired

\* C36: when the select! takes the close branch the driver leaves the loop in
\* that step; what is queued on the outbound channel then is never passed to
\* socket.write, and no read_eof (no other branch at all) follows.
CloseLeavesAtOnce == [][ClosedForGood]_vars

\* the driver has returned after the close branch with a message still queued
CloseLeavesAtOnceWitness ==
    /\ ppc = "done"
    /\ iter.fired = "close"
    /\ receiver # <<>>
    /\ Len(deq) < Len(enq)

\* ---- exceptions of the transport handler
\* the entries of task t's log that carry an error
ErrorEntries(t) == SelectSeq(log[t], LAMBDA e : e.msg.ty = "error")

\* C37: with the transport handler first in the pipeline, every error it
\* fires is a write_exception that ends in the end-of-pipeline log of that
\* handler: no handler's write_exception or read_exception is invoked with
\* it, and the write that caused it returns at the transport handler next.
TransportErrorUnseen ==
    \A t \in Tasks :
        /\ LET E == ErrorEntries(t)
           IN \A i \in DOMAIN E :
                /\ E[i].k = "eop"
                /\ E[i].dir = "out" /\ E[i].ev = "write_exception"
                /\ E[i].h = 1
        /\ LET L == log[t]
           IN \A i \in DOMAIN L :
                L[i].msg.ty = "error" =>
                    /\ i > 1
                    /\ L[i - 1].k = "call" /\ L[i - 1].ev = "write"
                    /\ L[i - 1].h = 1
                    /\ i < Len(L) =>
                          /\ L[i + 1].k = "ret" /\ L[i + 1].ev = "write"
                          /\ L[i + 1].h = 1

\* both kinds of error were fired, over UDP, and the writes that caused them
\* have returned to the application
TransportErrorUnseenWitness ==
    /\ ~busy["app"]
    /\ \E i \in DOMAIN ALog : ALog[i].k = "eop" /\ ALog[i].msg = IoErr
    /\ \E i \in DOMAIN ALog : ALog[i].k = "eop" /\ ALog[i].msg = NotConnected

\* ---- the return paths of process_pipeline
\* every connection the listener of bind g accepted failed its address lookup
AllFailedEarly(g) ==
    \A c \in Conns : owner[c] = g => exitBy[c] = "addr_err"

\* C38: a driver task that has returned, on any path, has dropped its worker;
\* one that returned on the failed address lookup delivered no event at all,
\* neither transport_active nor transport_inactive; and a listener all of
\* whose connections failed that way does not wait for any of them.
WorkerAlwaysReleased ==
    /\ \A c \in Conns :
         /\ dpc[c] = "done" => ~worker[c]
         /\ exitBy[c] = "addr_err" =>
               /\ dpc[c] = "done"
               /\ mon[c] = MonInit
    /\ \A g \in Binds :
         (lpc[g] = "wait" /\ AllFailedEarly(g)) => ChildWgDone(g)

\* a stop() call has returned although a connection of the listener it
\* waited for had failed its address lookup
WorkerAlwaysReleasedWitness ==
    \E s \in Stops, c \in Conns :
        /\ stopst[s] = "returned"
        /\ stopwg[s] # 0
        /\ owner[c] = stopwg[s]
        /\ exitBy[c] = "addr_err"
        /\ mon[c].nact = 0 /\ mon[c].ninact = 0

\* ---- the read loop ends
\* the frames fired by the read call received at entry i of trace T
FiredBy(T, i) ==
    {j \in DOMAIN T :
        /\ j > i
        /\ T[j].k = "fire" /\ T[j].ev = "read"
        /\ \A k \in (i + 1)..j : T[k].k # "recv"}

\* a read call fires no more frames than its buffer had bytes
FramesBounded ==
    LET T == ctrace
    IN \A i \in DOMAIN T :
         (T[i].k = "recv" /\ T[i].ev = "read") =>
             Cardinality(FiredBy(T, i)) <= Len(T[i].body)

\* C39: with a decoder whose every Ok(Some(frame)) takes at least one byte
\* off the buffer, a read call that has entered its loop returns, and the
\* frames it fired are at most as many as the bytes of its buffer.
ReadLoopEnds == []FramesBounded /\ ((cpc = "while") ~> (cpc = "idle"))

\* a read call over some decoder has returned after firing one frame per byte
\* of a buffer of several bytes
ReadLoopEndsWitness ==
    /\ decoder = "any"
    /\ cpc = "idle"
    /\ \E i \in DOMAIN ctrace :
         /\ ctrace[i].k = "recv" /\ ctrace[i].ev = "read"
         /\ Len(ctrace[i].body) >= 2
         /\ Cardinality(FiredBy(ctrace, i)) = Len(ctrace[i].body)

====
